---- MODULE Spec2Model ----
(***************************************************************************)
(* SSH-Executor: the execution paths of the workspace page.                *)
(*                                                                         *)
(* The front end (src/src/pages/Workspace.tsx) starts a batch with         *)
(* handleBatchExecute, listens to the 'batch-result' and 'batch-progress'  *)
(* events, stops a batch with handleCancel and keeps the result list, the  *)
(* progress and the retry timers.  Its retry classifier is                 *)
(* isRetryableError (src/src/utils/errorMessages.ts).  A single command is *)
(* run with handleSingleExecute.  Both handlers check the connection form  *)
(* with validateSshConfig (src/src/utils/validation.ts) first.             *)
(*                                                                         *)
(* The back end behind the commands execute_batch_commands,                *)
(* execute_ssh_command and cancel_command_execution is not part of the     *)
(* sources at hand; its session executor, scheduler, retry orchestrator,   *)
(* event channel and cancellation token are modelled from the              *)
(* specification (sections 4.1 - 4.8).                                     *)
(***************************************************************************)
EXTENDS Integers, Sequences, FiniteSets, TLC

(***************************************************************************)
(* Bounds of the model.                                                    *)
(***************************************************************************)
\* attempt rounds one execute_batch_commands invocation is followed through
MaxRounds == 3
\* capacity of the event channel, in events
MaxChan == 2
\* the retry interval of the settings, in timer ticks
RetryIntervalBound == 1
\* the largest reconnect_attempts followed
ReconnectAttemptsBound == 2
\* the largest reconnectDelayBase followed, in seconds
DelayBaseBound == 3
\* the largest reconnectAttempts the settings page stores
MaxReconnectAttempts == 10

NULL == "null"
\* the JavaScript value undefined (a field that is absent)
UNDEFINED == "undefined"

\* the handleBatchExecute invocations followed in one behaviour
Runs == {1, 2}

(***************************************************************************)
(* State.                                                                  *)
(***************************************************************************)
VARIABLES
    scope,              \* the scenario followed (see Scopes)
    \* ---- front end (Workspace.tsx) ----
    hosts,              \* the host list: a sequence of ips
    settings,           \* settings.connection: retryFailedHosts, retryInterval,
                        \* retryMaxAttempts, reconnectAttempts;
                        \* settings.security: passwordMinLength
    batchConfig,        \* batchConfig: max_concurrent, port, username,
                        \* auth_method, password, key_path, ppk_path
    batchExecuting,
    batchResults,       \* sequence of BatchCommandResult
    progress,           \* { current, total }
    retryTimers,        \* Map host -> seconds left
    retryAttempts,      \* Map host -> attempts counted
    unlistenResultRef,  \* run whose 'batch-result' unlisten function is kept, or 0
    unlistenProgressRef,
    resultListeners,    \* runs whose 'batch-result' listener is registered
    progressListeners,
    pc,                 \* position of each click on "execute"
    cancelPc,           \* position of handleCancel
    toasts,             \* the lists of validation errors shown so far
    singleExecuting,
    singleResults,      \* sequence of CommandResult (single mode)
    localStorage,       \* the items of window.localStorage followed, by key
    settingsPage,       \* the settings page: showPasswordPrompt, pendingUpdate
    logs,               \* what the console calls of the handlers have written
    cleanupTimeouts,    \* per click on "execute": the delayed check of
                        \* cleanupBatchExecution and what its closure holds
    \* ---- back end ----
    backend,            \* per execute_batch_commands invocation
    single,             \* the execute_ssh_command in flight, if any
    channel,            \* events and command replies on their way to the front end
    \* ---- history ----
    cancelled,          \* invocations whose token was tripped by a handleCancel
                        \* that has completed
    calls               \* the commands invoked so far, with their config

uiVars == <<scope, hosts, settings, batchConfig, batchExecuting, batchResults, progress,
            retryTimers, retryAttempts, unlistenResultRef, unlistenProgressRef,
            resultListeners, progressListeners, pc, cancelPc, toasts,
            singleExecuting, singleResults, localStorage, settingsPage, logs,
            cleanupTimeouts>>
\* what lies outside the batch and single execution paths
pageVars == <<localStorage, settingsPage, logs, cleanupTimeouts>>
vars == <<uiVars, backend, single, channel, cancelled, calls>>

Indices == 1..Len(hosts)

(***************************************************************************)
(* Failure messages.  A message is the set of phrases it contains; the     *)
(* phrases are the substrings the front end searches for.  Russian phrases *)
(* are written transliterated with the prefix "ru:".  "cs:" marks a        *)
(* case-sensitive search on the original text; the other phrases are       *)
(* searched in the lower-cased text.                                       *)
(***************************************************************************)
MsgValidation == {"ru:validac", "ru:komand"}
MsgKeyNotFound == {"key file not found", "file not found", "not found", "key"}
MsgAuthFailed == {"authentication"}
MsgConnRefused == {"connection", "refused"}
MsgConnTimeout == {"connection", "timeout"}
MsgCancelled == {"cs:ru:otmenen", "ru:vypolnen"}
MsgUnknown == {"panic"}
\* what execute_batch_commands answers when the worker pool cannot be built,
\* and the rejection of a listen() call
MsgPoolFailed == {"cs:Failed to create thread pool"}
MsgListenFailed == {"listen"}

FailureMessage(name) ==
    CASE name = "validation" -> MsgValidation
      [] name = "key_not_found" -> MsgKeyNotFound
      [] name = "auth_failed" -> MsgAuthFailed
      [] name = "conn_refused" -> MsgConnRefused
      [] name = "conn_timeout" -> MsgConnTimeout
      [] name = "cancelled" -> MsgCancelled
      [] name = "custom" -> scope.message
      [] name = "pool" -> MsgPoolFailed
      [] name = "listen" -> MsgListenFailed
      [] OTHER -> MsgUnknown

Includes(msg, phrase) == phrase \in msg

\* The checks with the connection and network rules moved to the front.
IsRetryableTextNetworkFirst(msg) ==
    IF Includes(msg, "connection") \/ Includes(msg, "ru:podkljuch") THEN TRUE
    ELSE IF Includes(msg, "network") \/ Includes(msg, "ru:set")
         \/ Includes(msg, "dns") \/ Includes(msg, "resolve") THEN TRUE
    ELSE IF Includes(msg, "authentication") \/ Includes(msg, "ru:autentifikac")
         \/ Includes(msg, "permission denied") THEN FALSE
    ELSE IF Includes(msg, "ru:validac") \/ Includes(msg, "validation")
         \/ Includes(msg, "ru:bezopasnost") \/ Includes(msg, "dangerous") THEN FALSE
    ELSE IF Includes(msg, "key file not found")
         \/ Includes(msg, "ru:fajl kljucha ne najden")
         \/ (Includes(msg, "key path") /\ Includes(msg, "not found")) THEN FALSE
    ELSE IF Includes(msg, "invalid format") \/ Includes(msg, "ru:nevernyj format")
         \/ Includes(msg, "invalid configuration")
         \/ Includes(msg, "ru:nevernaja konfiguracija") THEN FALSE
    ELSE IF Includes(msg, "connection") \/ Includes(msg, "ru:podkljuch") THEN TRUE
    ELSE IF Includes(msg, "network") \/ Includes(msg, "ru:set")
         \/ Includes(msg, "dns") \/ Includes(msg, "resolve") THEN TRUE
    ELSE IF Includes(msg, "execute") \/ Includes(msg, "ru:vypolnen")
         \/ (Includes(msg, "command") /\ Includes(msg, "error")) THEN FALSE
    ELSE TRUE

\* The checks with a default of false.
IsRetryableTextDefaultFalse(msg) ==
    IF Includes(msg, "authentication") \/ Includes(msg, "ru:autentifikac")
         \/ Includes(msg, "permission denied") THEN FALSE
    ELSE IF Includes(msg, "ru:validac") \/ Includes(msg, "validation")
         \/ Includes(msg, "ru:bezopasnost") \/ Includes(msg, "dangerous") THEN FALSE
    ELSE IF Includes(msg, "key file not found")
         \/ Includes(msg, "ru:fajl kljucha ne najden")
         \/ (Includes(msg, "key path") /\ Includes(msg, "not found")) THEN FALSE
    ELSE IF Includes(msg, "invalid format") \/ Includes(msg, "ru:nevernyj format")
         \/ Includes(msg, "invalid configuration")
         \/ Includes(msg, "ru:nevernaja konfiguracija") THEN FALSE
    ELSE IF Includes(msg, "connection") \/ Includes(msg, "ru:podkljuch") THEN TRUE
    ELSE IF Includes(msg, "network") \/ Includes(msg, "ru:set")
         \/ Includes(msg, "dns") \/ Includes(msg, "resolve") THEN TRUE
    ELSE IF Includes(msg, "execute") \/ Includes(msg, "ru:vypolnen")
         \/ (Includes(msg, "command") /\ Includes(msg, "error")) THEN FALSE
    ELSE FALSE

\* The checks without the rule for network errors.
IsRetryableTextNoNetworkRule(msg) ==
    IF Includes(msg, "authentication") \/ Includes(msg, "ru:autentifikac")
         \/ Includes(msg, "permission denied") THEN FALSE
    ELSE IF Includes(msg, "ru:validac") \/ Includes(msg, "validation")
         \/ Includes(msg, "ru:bezopasnost") \/ Includes(msg, "dangerous") THEN FALSE
    ELSE IF Includes(msg, "key file not found")
         \/ Includes(msg, "ru:fajl kljucha ne najden")
         \/ (Includes(msg, "key path") /\ Includes(msg, "not found")) THEN FALSE
    ELSE IF Includes(msg, "invalid format") \/ Includes(msg, "ru:nevernyj format")
         \/ Includes(msg, "invalid configuration")
         \/ Includes(msg, "ru:nevernaja konfiguracija") THEN FALSE
    ELSE IF Includes(msg, "connection") \/ Includes(msg, "ru:podkljuch") THEN TRUE
    ELSE IF Includes(msg, "execute") \/ Includes(msg, "ru:vypolnen")
         \/ (Includes(msg, "command") /\ Includes(msg, "error")) THEN FALSE
    ELSE TRUE

\* the checks of isRetryableError on a failure text, in their order.
\* (Every branch inside the authentication rule returns false.)
IsRetryableText(msg) ==
    IF Includes(msg, "authentication") \/ Includes(msg, "ru:autentifikac")
         \/ Includes(msg, "permission denied") THEN FALSE
    ELSE IF Includes(msg, "ru:validac") \/ Includes(msg, "validation")
         \/ Includes(msg, "ru:bezopasnost") \/ Includes(msg, "dangerous") THEN FALSE
    ELSE IF Includes(msg, "key file not found")
         \/ Includes(msg, "ru:fajl kljucha ne najden")
         \/ (Includes(msg, "key path") /\ Includes(msg, "not found")) THEN FALSE
    ELSE IF Includes(msg, "invalid format") \/ Includes(msg, "ru:nevernyj format")
         \/ Includes(msg, "invalid configuration")
         \/ Includes(msg, "ru:nevernaja konfiguracija") THEN FALSE
    ELSE IF Includes(msg, "connection") \/ Includes(msg, "ru:podkljuch") THEN TRUE
    ELSE IF Includes(msg, "network") \/ Includes(msg, "ru:set")
         \/ Includes(msg, "dns") \/ Includes(msg, "resolve") THEN TRUE
    ELSE IF Includes(msg, "execute") \/ Includes(msg, "ru:vypolnen")
         \/ (Includes(msg, "command") /\ Includes(msg, "error")) THEN FALSE
    ELSE TRUE

\* A classifier that takes every failure for one a retry can help.
IsRetryableErrorAnyFailure(error) == error # NULL

\* isRetryableError(error): whether a retry can help; false without an error
IsRetryableError(error) ==
    IF error = NULL THEN FALSE ELSE IsRetryableText(FailureMessage(error))

\* A test that takes no message for a cancellation.
IsCancelledMessageNever(error) == FALSE

\* the listener's test for a cancelled host: the error text contains the
\* Russian word for "cancelled" (either of its two forms, as written)
IsCancelledMessage(error) ==
    error # NULL /\ Includes(FailureMessage(error), "cs:ru:otmenen")

(***************************************************************************)
(* The error taxonomy of the back end (specification, section 7).          *)
(***************************************************************************)
\* the phrases of the rules, as the front end's list has them
ValidationPhrases == {"ru:validac", "validation", "ru:bezopasnost", "dangerous"}
KeyMaterialPhrases ==
    {"key file not found", "ru:fajl kljucha ne najden", "invalid format",
     "ru:nevernyj format", "invalid configuration", "ru:nevernaja konfiguracija"}
AuthPhrases == {"authentication", "ru:autentifikac", "permission denied"}
ConnectionPhrases == {"connection", "ru:podkljuch"}
NetworkPhrases ==
    ConnectionPhrases \cup {"network", "ru:set", "dns", "resolve", "refused",
                            "ru:otkloneno", "no route", "ru:net marshruta"}
TimeoutPhrases == {"timeout", "ru:tajmaut"}
\* the phrases that by themselves make a message retryable
RetryRulePhrases == ConnectionPhrases \cup {"network", "ru:set", "dns", "resolve"}
CancellationPhrases == {"cs:ru:otmenen"}
ExecutePhrases == {"execute", "ru:vypolnen"}

Mentions(msg, phrases) == msg \cap phrases # {}

MatchesValidation(msg) == Mentions(msg, ValidationPhrases)
MatchesKeyMaterial(msg) ==
    Mentions(msg, KeyMaterialPhrases) \/ {"key path", "not found"} \subseteq msg
MatchesAuth(msg) == Mentions(msg, AuthPhrases)
MatchesExecute(msg) ==
    Mentions(msg, ExecutePhrases) \/ {"command", "error"} \subseteq msg

\* the rules of the Error Classifier on a message, first match wins
KindOfText(msg) ==
    IF MatchesValidation(msg) THEN "CommandValidation"
    ELSE IF MatchesKeyMaterial(msg) THEN "KeyMaterial"
    ELSE IF MatchesAuth(msg) THEN "AuthDenied"
    ELSE IF Mentions(msg, NetworkPhrases) THEN "NetworkTransient"
    ELSE IF Mentions(msg, TimeoutPhrases) THEN "Timeout"
    ELSE IF Mentions(msg, CancellationPhrases) THEN "Cancelled"
    ELSE "Unknown"

KindOf(error) ==
    CASE error = "validation" -> "CommandValidation"
      [] error = "key_not_found" -> "KeyMaterial"
      [] error = "auth_failed" -> "AuthDenied"
      [] error = "conn_refused" -> "NetworkTransient"
      [] error = "conn_timeout" -> "Timeout"
      [] error = "cancelled" -> "Cancelled"
      [] error = "custom" -> KindOfText(scope.message)
      [] OTHER -> "Unknown"

Retryable(kind) == kind \in {"NetworkTransient", "Timeout", "Unknown"}

\* BatchOutcome / BatchCommandResult: { result, error, host, timestamp }; the
\* time the back end stamps an outcome with, and the later time the front
\* end reads from its clock
Timestamp == "2026-01-01T00:00:00.000Z"
Now == "2026-01-01T00:00:01.000Z"

\* a BatchCommandResult
Outcome(host, result, error) ==
    [host |-> host, result |-> result, error |-> error, timestamp |-> Timestamp]

\* what a session that is not cancelled ends with: a command result, or one
\* of the given failures
SessionOutcomes(host, exits, failures) ==
    { Outcome(host, x, NULL) : x \in exits }
      \cup { Outcome(host, NULL, e) : e \in failures }

CancelledOutcome(host) == Outcome(host, NULL, "cancelled")

(***************************************************************************)
(* Back end: Batch Scheduler, Retry Orchestrator, Event Channel and        *)
(* Cancellation Token (specification 4.5 - 4.8).                           *)
(***************************************************************************)
\* the state of an invocation before it is started
FreshRun ==
    [ phase |-> "none",
      request |-> [hosts |-> hosts, max_concurrent |-> 1,
                   retry_failed_hosts |-> FALSE, retry_interval |-> 0,
                   config_template |-> [reconnect_attempts |-> 0]],
      tripped |-> FALSE,
      round |-> 0,
      slot |-> [i \in Indices |-> "Idle"],
      outcome |-> [i \in Indices |-> Outcome(hosts[i], NULL, NULL)],
      attempts |-> [i \in Indices |-> 0],
      reconnects |-> [i \in Indices |-> 0],
      cause |-> [i \in Indices |-> NULL],
      emitted |-> [i \in Indices |-> 0],
      completed |-> 0,
      total |-> 0,
      last |-> [round |-> 0, completed |-> 0, total |-> 0] ]

\* retry_max_attempts of a BatchRequest; a request without the field has
\* the default 0 (unbounded until cancelled)
RequestRetryMaxAttempts(request) ==
    IF "retry_max_attempts" \in DOMAIN request THEN request.retry_max_attempts ELSE 0

\* sessions of run r that are open: dispatched and not yet terminal
OpenSessions(r) == { i \in Indices : backend[r].slot[i] = "Executing" }

ResultEvent(r, o) == [type |-> "batch-result", run |-> r, payload |-> o]
ProgressEvent(r, c, t, h) ==
    [type |-> "batch-progress", run |-> r,
     payload |-> [completed |-> c, total |-> t, host |-> h]]

\* a worker reports the terminal outcome o of host index i: one batch-result
\* and one batch-progress event; the send blocks while the channel is full
EmitOutcome(r, i, o) ==
    /\ Len(channel) + 2 <= MaxChan
    /\ LET b == backend[r]
           c == b.completed + 1
       IN /\ backend' = [backend EXCEPT
                 ![r].slot[i] = "Done",
                 ![r].outcome[i] = o,
                 ![r].emitted[i] = @ + 1,
                 ![r].completed = c,
                 ![r].last = [round |-> b.round, completed |-> c, total |-> b.total]]
          /\ channel' = channel \o << ResultEvent(r, o),
                                      ProgressEvent(r, c, b.total, o.host) >>

\* a free worker takes the next pending host, in the order of the host list
CanDispatch(r, i) ==
    /\ backend[r].phase = "running"
    /\ ~backend[r].tripped
    /\ backend[r].slot[i] = "Pending"
    /\ \A j \in Indices : j < i => backend[r].slot[j] # "Pending"
    /\ Cardinality(OpenSessions(r)) < backend[r].request.max_concurrent

Dispatch(r, i) ==
    /\ CanDispatch(r, i)
    /\ backend' = [backend EXCEPT ![r].slot[i] = "Executing",
                                  ![r].reconnects[i] = 0,
                                  ![r].cause[i] = NULL]
    /\ UNCHANGED <<uiVars, single, calls, channel, cancelled>>

\* Errors of every kind taken for a reason to reconnect.
ReconnectCausesAnyFailure == scope.failures

\* the errors before authentication after which the Retry Policy opens a
\* fresh connection: those classified NetworkTransient or Timeout
ReconnectCauses ==
    { e \in scope.failures : KindOf(e) \in {"NetworkTransient", "Timeout"} }

\* a session that has not authenticated yet hits such an error and has
\* reconnects left: it opens a fresh connection
Reconnect(r, i) ==
    /\ backend[r].phase = "running"
    /\ ~backend[r].tripped
    /\ backend[r].slot[i] = "Executing"
    /\ backend[r].reconnects[i] < backend[r].request.config_template.reconnect_attempts
    /\ \E e \in ReconnectCauses :
          backend' = [backend EXCEPT ![r].reconnects[i] = @ + 1,
                                    ![r].cause[i] = e]
    /\ UNCHANGED <<uiVars, single, calls, channel, cancelled>>

\* Sessions that do not read the token.
TerminalOutcomesIgnoringToken(r, i) ==
    SessionOutcomes(hosts[i], scope.exits, scope.failures)

\* the outcomes a session of host index i can end with: Cancelled once the
\* token is tripped, else a command result or a classified failure
TerminalOutcomes(r, i) ==
    IF backend[r].tripped THEN { CancelledOutcome(hosts[i]) }
    ELSE SessionOutcomes(hosts[i], scope.exits, scope.failures)

SessionEnd(r, i) ==
    /\ backend[r].phase = "running"
    /\ backend[r].slot[i] = "Executing"
    /\ \E o \in TerminalOutcomes(r, i) : EmitOutcome(r, i, o)
    /\ UNCHANGED <<uiVars, single, calls, cancelled>>

\* on cancel, a pending host that has not started is emitted as Cancelled
CancelPending(r, i) ==
    /\ backend[r].phase = "running"
    /\ backend[r].tripped
    /\ backend[r].slot[i] = "Pending"
    /\ EmitOutcome(r, i, CancelledOutcome(hosts[i]))
    /\ UNCHANGED <<uiVars, single, calls, cancelled>>

\* the hosts the Retry Orchestrator re-submits after a round
RetrySubset(r) ==
    LET b == backend[r]
        cap == RequestRetryMaxAttempts(b.request)
    IN { i \in Indices :
           /\ b.slot[i] = "Done"
           /\ b.outcome[i].error # NULL
           /\ Retryable(KindOf(b.outcome[i].error))
           /\ (cap = 0 \/ b.attempts[i] < cap) }

RoundDrained(r) ==
    /\ backend[r].phase = "running"
    /\ \A i \in Indices : backend[r].slot[i] \in {"Done", "Idle"}

\* the invocation returns its vector of outcomes
ReturnRun(r) ==
    /\ backend' = [backend EXCEPT ![r].phase = "returned"]
    /\ channel' = Append(channel, [type |-> "response", run |-> r])

\* the worker pool cannot be built: the call fails before any work is done
\* and the error is its sole answer
PoolConstructionFails(r) ==
    /\ "pool" \in scope.faults
    /\ backend[r].phase = "running"
    /\ backend[r].round = 1
    /\ \A i \in Indices : backend[r].slot[i] = "Pending" /\ backend[r].emitted[i] = 0
    /\ backend' = [backend EXCEPT ![r].phase = "failed"]
    /\ channel' = Append(channel, [type |-> "error", run |-> r, error |-> "pool"])
    /\ UNCHANGED <<uiVars, single, calls, cancelled>>

\* a round has drained: wait for the retry interval, or return
RoundEnd(r) ==
    /\ RoundDrained(r)
    /\ IF /\ backend[r].request.retry_failed_hosts
          /\ ~backend[r].tripped
          /\ RetrySubset(r) # {}
       THEN /\ backend' = [backend EXCEPT ![r].phase = "sleeping"]
            /\ UNCHANGED channel
       ELSE ReturnRun(r)
    /\ UNCHANGED <<uiVars, single, calls, cancelled>>

\* A retry round that keeps the total of the first round.
StartRetryRoundKeepingTotal(r) ==
    LET sub == RetrySubset(r) IN
    backend' = [backend EXCEPT
        ![r].phase = "running",
        ![r].round = @ + 1,
        ![r].slot = [i \in Indices |-> IF i \in sub THEN "Pending" ELSE "Idle"],
        ![r].attempts = [i \in Indices |-> IF i \in sub THEN @[i] + 1 ELSE @[i]],
        ![r].emitted = [i \in Indices |-> 0],
        ![r].completed = 0]

\* the retry interval has passed: the subset is re-submitted as a new round
StartRetryRound(r) ==
    LET sub == RetrySubset(r) IN
    backend' = [backend EXCEPT
        ![r].phase = "running",
        ![r].round = @ + 1,
        ![r].slot = [i \in Indices |-> IF i \in sub THEN "Pending" ELSE "Idle"],
        ![r].attempts = [i \in Indices |-> IF i \in sub THEN @[i] + 1 ELSE @[i]],
        ![r].emitted = [i \in Indices |-> 0],
        ![r].completed = 0,
        ![r].total = Cardinality(sub)]

RetrySleepEnd(r) ==
    /\ backend[r].phase = "sleeping"
    /\ ~backend[r].tripped
    /\ backend[r].round < MaxRounds
    /\ StartRetryRound(r)
    /\ UNCHANGED <<uiVars, single, calls, channel, cancelled>>

\* the sleep polls the token: a trip ends the invocation
RetrySleepCancelled(r) ==
    /\ backend[r].phase = "sleeping"
    /\ backend[r].tripped
    /\ ReturnRun(r)
    /\ UNCHANGED <<uiVars, single, calls, cancelled>>

\* execute_ssh_command: the session of the single command ends; a tripped
\* token makes it end as cancelled
SingleSessionEnd ==
    /\ single.phase = "running"
    /\ Len(channel) < MaxChan
    /\ \E o \in (IF single.tripped THEN {CancelledOutcome(hosts[1])}
                 ELSE SessionOutcomes(hosts[1], scope.exits, scope.failures)) :
          channel' = Append(channel, [type |-> "single-response", run |-> 0,
                                      payload |-> o])
    /\ single' = [single EXCEPT !.phase = "none"]
    /\ UNCHANGED <<uiVars, backend, cancelled, calls>>

\* A cancel that trips the token of every invocation, started or not.
TripTokensEveryRun == [r \in Runs |-> [backend[r] EXCEPT !.tripped = TRUE]]

\* cancel_command_execution: trips the token of the invocations in flight
\* and acknowledges
TripTokens ==
    [r \in Runs |->
        IF backend[r].phase \in {"running", "sleeping"}
        THEN [backend[r] EXCEPT !.tripped = TRUE]
        ELSE backend[r]]

CancelCommandExecution ==
    /\ cancelPc = "sent"
    /\ backend' = TripTokens
    /\ single' = IF single.phase = "running" THEN [single EXCEPT !.tripped = TRUE]
                 ELSE single
    /\ channel' = Append(channel, [type |-> "cancel-ack", run |-> 0])
    /\ cancelPc' = "acked"
    /\ UNCHANGED <<scope, pageVars, toasts, singleExecuting, singleResults, calls,
                   hosts, settings, batchConfig, batchExecuting, batchResults,
                   progress, retryTimers, retryAttempts, unlistenResultRef,
                   unlistenProgressRef, resultListeners, progressListeners,
                   pc, cancelled>>

(***************************************************************************)
(* Front end: Workspace.tsx.                                               *)
(***************************************************************************)
EmptyMap == [h \in {} |-> 0]
MapHas(m, k) == k \in DOMAIN m
MapGet(m, k) == IF k \in DOMAIN m THEN m[k] ELSE 0
MapSet(m, k, v) == [h \in DOMAIN m \cup {k} |-> IF h = k THEN v ELSE m[h]]
MapDelete(m, k) == [h \in DOMAIN m \ {k} |-> m[h]]

\* the keys of window.localStorage followed
BatchConfigKey == "ssh-executor-batch-config"
SingleConfigKey == "ssh-executor-single-config"
WorkspaceStateKey == "ssh-executor-workspace-state"
PasswordHashKey == "settings-password-hash"

\* localStorage.getItem gives null for a key without an item
NoItem == [kind |-> "none"]
HasItem(storage, key) == storage[key].kind = "item"

\* localStorage.setItem and localStorage.removeItem
SetItem(storage, key, value) ==
    [storage EXCEPT ![key] = [kind |-> "item", value |-> value]]
RemoveItem(storage, key) == [storage EXCEPT ![key] = NoItem]

\* Map.set on a Map of results keyed by host, kept as the sequence of its
\* values in insertion order: an existing key keeps its place
Upsert(acc, rec) ==
    IF \E k \in 1..Len(acc) : acc[k].host = rec.host
    THEN [k \in 1..Len(acc) |-> IF acc[k].host = rec.host THEN rec ELSE acc[k]]
    ELSE Append(acc, rec)

RECURSIVE UpsertAll(_, _)
UpsertAll(acc, recs) ==
    IF recs = <<>> THEN acc ELSE UpsertAll(Upsert(acc, Head(recs)), Tail(recs))

\* flushPendingResults: new Map(prev.map(r => [r.host, r])), the pending
\* updates set on it, and Array.from(currentMap.values())
FlushPendingResults(prev, pending) == UpsertAll(UpsertAll(<<>>, prev), pending)

\* addTimestamp: the record with its timestamp set to the current time
AddTimestamp(result) ==
    [f \in DOMAIN result \cup {"timestamp"} |->
        IF f = "timestamp" THEN Now ELSE result[f]]

\* typeof, on the JSON values of the model: "#number" is a number, "#partial"
\* an object that lacks stdout, the other strings are themselves
TypeOf(v) ==
    CASE v = UNDEFINED -> "undefined"
      [] v = NULL -> "object"
      [] v = "#partial" -> "object"
      [] v = "#number" -> "number"
      [] OTHER -> "string"

\* isValidCommandResult: the exit names stand for complete CommandResults
IsValidCommandResult(data) == data \in {"exit0", "exit1"}

\* A validator that does not look at the host.
IsValidBatchCommandResultAnyHost(data) ==
    /\ data.result = NULL \/ IsValidCommandResult(data.result)
    /\ data.error = NULL \/ TypeOf(data.error) = "string"
    /\ data.timestamp = UNDEFINED \/ TypeOf(data.timestamp) = "string"

\* isValidBatchCommandResult
IsValidBatchCommandResult(data) ==
    /\ TypeOf(data.host) = "string"
    /\ data.result = NULL \/ IsValidCommandResult(data.result)
    /\ data.error = NULL \/ TypeOf(data.error) = "string"
    /\ data.timestamp = UNDEFINED \/ TypeOf(data.timestamp) = "string"

\* isValidBatchCommandResultArray, on a parsed item that is an array
IsValidBatchCommandResultArray(data) ==
    \A k \in 1..Len(data) : IsValidBatchCommandResult(data[k])

\* safeJsonParse with isValidBatchCommandResultArray: a missing item, text
\* that is no JSON array and an array that fails the validator give the
\* fallback
SafeJsonParse(item, fallback) ==
    IF item.kind # "array" THEN fallback
    ELSE IF IsValidBatchCommandResultArray(item.items) THEN item.items
    ELSE fallback

\* the result list the page starts with
RestoredBatchResults ==
    IF ~scope.autoCleanupResults THEN SafeJsonParse(scope.saved, <<>>) ELSE <<>>

\* an entry that failed: r.error !== null && !r.result
FailedEntry(results) ==
    \E k \in 1..Len(results) : results[k].error # NULL /\ results[k].result = NULL

\* hasUnfinishedTasks
HasUnfinishedTasks ==
    \/ batchExecuting \/ singleExecuting \/ DOMAIN retryTimers # {}
    \/ (settings.retryFailedHosts /\ FailedEntry(batchResults))

\* the hour of the clock when the page is mounted and while it runs
NowHour == 48

\* the WorkspaceState saveWorkspaceState writes (progress, command, mode and
\* the single results are not followed); batchResults is left out unless a
\* batch is executing or a timer is pending
WorkspaceState(executing, singleRunning, timers, results) ==
    [ batchExecuting |-> executing,
      singleExecuting |-> singleRunning,
      retryTimers |-> timers,
      hasBatchResults |-> executing \/ DOMAIN timers # {},
      batchResults |-> IF executing \/ DOMAIN timers # {} THEN results ELSE <<>>,
      savedAt |-> NowHour ]

\* what saveWorkspaceState leaves under the key
SavedWorkspaceState ==
    IF ~HasUnfinishedTasks THEN NoItem
    ELSE [kind |-> "item",
          value |-> WorkspaceState(batchExecuting, singleExecuting, retryTimers,
                                   batchResults)]

\* the effect that saves the workspace state, once its delay has passed
SaveWorkspaceState ==
    /\ scope.persist
    /\ localStorage[WorkspaceStateKey] # SavedWorkspaceState
    /\ localStorage' = [localStorage EXCEPT ![WorkspaceStateKey] = SavedWorkspaceState]
    /\ UNCHANGED <<scope, settingsPage, logs, cleanupTimeouts, hosts, settings,
                   batchConfig, batchExecuting, batchResults, progress,
                   retryTimers, retryAttempts, unlistenResultRef,
                   unlistenProgressRef, resultListeners, progressListeners,
                   pc, cancelPc, toasts, singleExecuting, singleResults,
                   backend, single, channel, cancelled, calls>>

\* restoreWorkspaceState: nothing without an item, and an item older than 24
\* hours is dropped
RestoreWorkspaceState(item) ==
    IF item.kind # "item" THEN NoItem
    ELSE IF NowHour - item.value.savedAt > 24 THEN NoItem
    ELSE item

\* the mount effect restores when the saved state has unfinished tasks
MountRestores(item) ==
    /\ RestoreWorkspaceState(item).kind = "item"
    /\ \/ item.value.batchExecuting
       \/ item.value.singleExecuting
       \/ DOMAIN item.value.retryTimers # {}

\* the result list after the mount effects
MountedBatchResults ==
    IF MountRestores(scope.workspaceState) /\ scope.workspaceState.value.hasBatchResults
    THEN scope.workspaceState.value.batchResults
    ELSE RestoredBatchResults

\* retryTimers after the mount effects: the saved timers, unless the effect
\* on retryFailedHosts clears them
MountedRetryTimers(retryFailedHosts) ==
    IF MountRestores(scope.workspaceState) /\ retryFailedHosts
    THEN scope.workspaceState.value.retryTimers
    ELSE EmptyMap

\* The strings of the model: "" is the empty string, " " a blank one.
StrLen(s) ==
    CASE s = "" -> 0
      [] s = " " -> 1
      [] s = "pw" -> 2
      [] s = "root" -> 4
      [] s = "key.ppk" -> 7
      [] s = "hunter22" -> 8
      [] s = "id_rsa" -> 6

\* String.prototype.trim
Trim(s) == IF s = " " THEN "" ELSE s

\* !value, for a string or undefined
Falsy(v) == v = UNDEFINED \/ v = ""

\* validateIp, validateHostname: on the host strings of the model
ValidateIp(ip) == ip \in {"10.0.0.1", "10.0.0.2"}
ValidateHostname(hostname) == hostname \in {"10.0.0.1", "10.0.0.2", "server"}

\* validatePort
ValidatePort(port) == port > 0 /\ port <= 65535

\* validateSshConfig without the checks of the key paths
ValidateSshConfigNoKeyCheck(config) ==
    LET hostErrors ==
            IF Falsy(config.host) \/ config.host = "batch" THEN <<>>
            ELSE IF ~ValidateIp(config.host) /\ ~ValidateHostname(config.host)
            THEN <<"host format">> ELSE <<>>
        portErrors == IF ~ValidatePort(config.port) THEN <<"port">> ELSE <<>>
        userErrors ==
            IF Falsy(config.username) \/ StrLen(Trim(config.username)) = 0
            THEN <<"username">> ELSE <<>>
        passwordErrors ==
            IF config.auth_method = "password"
            THEN IF Falsy(config.password) THEN <<"password">>
                 ELSE IF config.passwordMinLength # 0
                         /\ StrLen(config.password) < config.passwordMinLength
                 THEN <<"password length">> ELSE <<>>
            ELSE <<>>
        errors == hostErrors \o portErrors \o userErrors \o passwordErrors
    IN [valid |-> errors = <<>>, errors |-> errors]

\* validateSshConfig: the errors of a config, in the order they are pushed
ValidateSshConfig(config) ==
    LET hostErrors ==
            IF Falsy(config.host) \/ config.host = "batch" THEN <<>>
            ELSE IF ~ValidateIp(config.host) /\ ~ValidateHostname(config.host)
            THEN <<"host format">> ELSE <<>>
        portErrors == IF ~ValidatePort(config.port) THEN <<"port">> ELSE <<>>
        userErrors ==
            IF Falsy(config.username) \/ StrLen(Trim(config.username)) = 0
            THEN <<"username">> ELSE <<>>
        passwordErrors ==
            IF config.auth_method = "password"
            THEN IF Falsy(config.password) THEN <<"password">>
                 ELSE IF config.passwordMinLength # 0
                         /\ StrLen(config.password) < config.passwordMinLength
                 THEN <<"password length">> ELSE <<>>
            ELSE <<>>
        keyErrors ==
            IF config.auth_method = "key"
               /\ (Falsy(config.key_path) \/ StrLen(Trim(config.key_path)) = 0)
            THEN <<"key path">> ELSE <<>>
        ppkErrors ==
            IF config.auth_method = "ppk"
               /\ (Falsy(config.ppk_path) \/ StrLen(Trim(config.ppk_path)) = 0)
            THEN <<"ppk path">> ELSE <<>>
        errors == hostErrors \o portErrors \o userErrors \o passwordErrors
                    \o keyErrors \o ppkErrors
    IN [valid |-> errors = <<>>, errors |-> errors]

\* singleConfig: the connection form of the single mode
singleConfig ==
    [ host |-> hosts[1], port |-> scope.config.port,
      username |-> scope.config.username,
      auth_method |-> scope.config.auth_method,
      password |-> scope.config.password, key_path |-> scope.config.key_path,
      ppk_path |-> scope.config.ppk_path,
      passphrase |-> scope.config.passphrase ]

\* what the execute handlers hand to validateSshConfig
ValidationInput(config, host) ==
    [ host |-> host, port |-> config.port, username |-> config.username,
      auth_method |-> config.auth_method, password |-> config.password,
      key_path |-> config.key_path, ppk_path |-> config.ppk_path,
      passwordMinLength |-> settings.passwordMinLength ]

\* the sshConfig the execute handlers hand to the back end: only the secret
\* of the chosen authentication method is passed
SshConfig(config, host) ==
    [ host |-> host, port |-> config.port, username |-> config.username,
      auth_method |-> config.auth_method,
      password |-> IF config.auth_method = "password" THEN config.password
                   ELSE UNDEFINED,
      key_path |-> IF config.auth_method = "key" THEN config.key_path
                   ELSE UNDEFINED,
      ppk_path |-> IF config.auth_method = "ppk" THEN config.ppk_path
                   ELSE UNDEFINED,
      passphrase |-> config.passphrase,
      reconnect_attempts |-> settings.reconnectAttempts ]

\* the secrets of a connection form: its password and its key passphrase,
\* where one is given
Secrets(config) == {config.password, config.passphrase} \ {UNDEFINED, ""}

\* String(!!value)
HasText(value) == IF Falsy(value) THEN "false" ELSE "true"

\* a console line: its message and the values printed after it
LogLine(message, values) == [message |-> message, values |-> values]

\* handleBatchExecute: "start of the batch command", with authMethod and
\* username (host count, command and port are not followed)
BatchStartLog == LogLine("start", {batchConfig.auth_method, batchConfig.username})

\* A line that prints the prepared config itself.
ConfigPreparedLogWithConfig(sshConfig) ==
    LogLine("config prepared",
            {sshConfig.password, sshConfig.key_path, sshConfig.passphrase})

\* handleBatchExecute: "SSH config prepared", with hasPassword and hasKeyPath
ConfigPreparedLog(sshConfig) ==
    LogLine("config prepared",
            {HasText(sshConfig.password), HasText(sshConfig.key_path)})

\* Placeholders taken from a Map keyed by host: one per distinct ip.
InitialResultsByHost ==
    UpsertAll(<<>>, [i \in Indices |-> AddTimestamp(Outcome(hosts[i], NULL, NULL))])

\* the placeholders handleBatchExecute starts with: one per host, in order
InitialResults == [i \in Indices |-> AddTimestamp(Outcome(hosts[i], NULL, NULL))]

\* A request that asks for one worker per host.
BuildRequestWorkerPerHost ==
    [ hosts |-> hosts,
      config_template |-> SshConfig(batchConfig, ""),
      max_concurrent |-> Len(hosts),
      retry_failed_hosts |-> settings.retryFailedHosts,
      retry_interval |-> settings.retryInterval ]

\* the request handed to execute_batch_commands
BuildRequest ==
    [ hosts |-> hosts,
      config_template |-> SshConfig(batchConfig, ""),
      max_concurrent |-> batchConfig.max_concurrent,
      retry_failed_hosts |-> settings.retryFailedHosts,
      retry_interval |-> settings.retryInterval ]

\* The retry bookkeeping of the 'batch-result' listener for one result;
\* st = [timers, attempts], executing = the current batchExecuting.
\* The host's timer is removed ...
RemoveTimer(st, result) == [st EXCEPT !.timers = MapDelete(@, result.host)]

\* ... when the result is cancelled or retries are switched off,
OnCancelledOrDisabled(st, result) == RemoveTimer(st, result)

\* ... when the failure is one a retry cannot help,
OnNotRetryable(st, result) == RemoveTimer(st, result)

\* A listener that leaves the timer of a host whose command ran.
OnResultPresentKeepingTimer(st, result) == st

\* ... and when the command ran (a result is present).
OnResultPresent(st, result) == RemoveTimer(st, result)

\* A failure a retry can help: below the attempt limit (0 = no limit) the
\* timer is started, if a batch is executing, and the attempt is counted;
\* at the limit the timer is removed.
OnRetryable(st, result, executing) ==
    LET currentAttempts == MapGet(st.attempts, result.host)
        maxAttempts == settings.retryMaxAttempts
    IN IF maxAttempts = 0 \/ currentAttempts < maxAttempts
       THEN [ timers |-> IF executing
                         THEN MapSet(st.timers, result.host, settings.retryInterval)
                         ELSE st.timers,
              attempts |-> MapSet(st.attempts, result.host, currentAttempts + 1) ]
       ELSE RemoveTimer(st, result)

RetryBookkeeping(st, result, executing) ==
    IF IsCancelledMessage(result.error) \/ ~settings.retryFailedHosts
    THEN OnCancelledOrDisabled(st, result)
    ELSE IF result.error # NULL
    THEN IF IsRetryableError(result.error)
         THEN OnRetryable(st, result, executing)
         ELSE OnNotRetryable(st, result)
    ELSE IF result.result # NULL
    THEN OnResultPresent(st, result)
    ELSE st

\* the result list after the listener queued the result and the queue was
\* flushed (queueResultUpdate, then flushPendingResults in the microtask)
QueueResultUpdate(results, result) ==
    FlushPendingResults(results, <<AddTimestamp(result)>>)

\* every registered 'batch-result' listener handles the event
RECURSIVE OnBatchResult(_, _, _)
OnBatchResult(st, result, n) ==
    IF n = 0 THEN st
    ELSE LET bk == RetryBookkeeping([timers |-> st.timers, attempts |-> st.attempts],
                                    result, batchExecuting)
         IN OnBatchResult([ results |-> QueueResultUpdate(st.results, result),
                            timers |-> bk.timers,
                            attempts |-> bk.attempts ], result, n - 1)

\* cleanupEventListeners: call and forget the kept unlisten functions
ResultListenersAfterCleanup == resultListeners \ {unlistenResultRef}
ProgressListenersAfterCleanup == progressListeners \ {unlistenProgressRef}

CleanupEventListeners ==
    /\ resultListeners' = ResultListenersAfterCleanup
    /\ progressListeners' = ProgressListenersAfterCleanup
    /\ unlistenResultRef' = 0
    /\ unlistenProgressRef' = 0

\* the invocation the next click on "execute" starts
NextRun(r) ==
    /\ r <= scope.runs
    /\ pc[r] = "idle"
    /\ \A q \in Runs : q < r => pc[q] # "idle"

\* An effect that leaves the attempt counters as they are.
AttemptsOnExecutingKept == retryAttempts

\* the effect on batchExecuting turning true: setRetryAttempts(new Map())
AttemptsOnExecuting == EmptyMap

\* no delayed check is pending
NoTimeout == [state |-> "none", timers |-> FALSE, failed |-> FALSE]

\* what the handlers created by the render of a click see of retryTimers and
\* batchResults
ClosureOfClick ==
    IF scope.persist
    THEN [state |-> "none", timers |-> DOMAIN retryTimers # {},
          failed |-> FailedEntry(batchResults)]
    ELSE NoTimeout

\* cleanupBatchExecution: setTimeout(..., 1000)
ScheduleCleanupCheck(r) ==
    IF scope.persist
    THEN [cleanupTimeouts EXCEPT ![r].state = "pending"]
    ELSE cleanupTimeouts

\* handleBatchExecute up to its first await (listen 'batch-result'); the
\* effect on batchExecuting clears the attempt counters
HandleBatchExecuteStart(r) ==
    /\ NextRun(r)
    /\ scope.mode = "batch"
    /\ ~batchExecuting
    /\ Len(hosts) # 0
    /\ ValidateSshConfig(ValidationInput(batchConfig, "batch")).valid
    /\ batchExecuting' = TRUE
    /\ progress' = [current |-> 0, total |-> Len(hosts)]
    /\ CleanupEventListeners
    /\ batchResults' = InitialResults
    /\ retryAttempts' = AttemptsOnExecuting
    /\ backend' = [backend EXCEPT ![r].request = BuildRequest]
    /\ logs' = logs \cup {BatchStartLog, ConfigPreparedLog(SshConfig(batchConfig, ""))}
    /\ cleanupTimeouts' = [cleanupTimeouts EXCEPT ![r] = ClosureOfClick]
    /\ pc' = [pc EXCEPT ![r] = "listenResult"]
    /\ UNCHANGED <<scope, localStorage, settingsPage, toasts, singleExecuting, singleResults, single,
                   calls, hosts, settings, batchConfig, retryTimers, cancelPc,
                   channel, cancelled>>

\* handleBatchExecute when validateSshConfig rejects the form: the errors are
\* shown and the handler returns
HandleBatchExecuteRejected(r) ==
    /\ NextRun(r)
    /\ scope.mode = "batch"
    /\ ~batchExecuting
    /\ Len(hosts) # 0
    /\ ~ValidateSshConfig(ValidationInput(batchConfig, "batch")).valid
    /\ toasts' = toasts \cup {ValidateSshConfig(ValidationInput(batchConfig, "batch")).errors}
    /\ pc' = [pc EXCEPT ![r] = "rejected"]
    /\ UNCHANGED <<scope, pageVars, singleExecuting, singleResults, single, calls,
                   hosts, settings, batchConfig, batchExecuting, batchResults,
                   progress, retryTimers, retryAttempts, unlistenResultRef,
                   unlistenProgressRef, resultListeners, progressListeners,
                   cancelPc, backend, channel, cancelled>>

\* listen('batch-result') has resolved
ListenResultRegistered(r) ==
    /\ pc[r] = "listenResult"
    /\ unlistenResultRef' = r
    /\ resultListeners' = resultListeners \cup {r}
    /\ pc' = [pc EXCEPT ![r] = "listenProgress"]
    /\ UNCHANGED <<scope, pageVars, toasts, singleExecuting, singleResults, single,
                   calls, hosts, settings, batchConfig, batchExecuting,
                   batchResults, progress, retryTimers, retryAttempts,
                   unlistenProgressRef, progressListeners, cancelPc, backend,
                   channel, cancelled>>

\* the first round of an invocation: every host of the request is pending
StartFirstRound(r) ==
    [backend[r] EXCEPT
        !.phase = "running",
        !.round = 1,
        !.slot = [i \in Indices |-> "Pending"],
        !.total = Len(hosts)]

\* listen('batch-progress') has resolved and execute_batch_commands is invoked
ListenProgressRegistered(r) ==
    /\ pc[r] = "listenProgress"
    /\ unlistenProgressRef' = r
    /\ progressListeners' = progressListeners \cup {r}
    /\ backend' = [backend EXCEPT ![r] = StartFirstRound(r)]
    /\ calls' = calls \cup {[command |-> "execute_batch_commands",
                              config |-> backend[r].request.config_template]}
    /\ pc' = [pc EXCEPT ![r] = "invoke"]
    /\ UNCHANGED <<scope, pageVars, toasts, singleExecuting, singleResults, single,
                   hosts, settings, batchConfig, batchExecuting, batchResults,
                   progress, retryTimers, retryAttempts, unlistenResultRef,
                   resultListeners, cancelPc, channel, cancelled>>

\* the delayed check of cleanupBatchExecution: the saved workspace state is
\* removed unless the closure holds timers, or a failed entry while the
\* retries are enabled
CleanupCheck(r) ==
    /\ cleanupTimeouts[r].state = "pending"
    /\ cleanupTimeouts' = [cleanupTimeouts EXCEPT ![r].state = "none"]
    /\ localStorage' =
          IF cleanupTimeouts[r].timers
               \/ (settings.retryFailedHosts /\ cleanupTimeouts[r].failed)
          THEN localStorage
          ELSE RemoveItem(localStorage, WorkspaceStateKey)
    /\ UNCHANGED <<scope, settingsPage, logs, hosts, settings, batchConfig,
                   batchExecuting, batchResults, progress, retryTimers,
                   retryAttempts, unlistenResultRef, unlistenProgressRef,
                   resultListeners, progressListeners, pc, cancelPc, toasts,
                   singleExecuting, singleResults, backend, single, channel,
                   cancelled, calls>>

\* cleanupBatchExecution
CleanupBatchExecution ==
    /\ CleanupEventListeners
    /\ batchExecuting' = FALSE
    /\ progress' = [current |-> 0, total |-> 0]
    /\ retryTimers' = EmptyMap

\* handleBatchError: the error is written to the console; a cancellation is
\* shown as an information, anything else as an error of the batch
HandleBatchError(error) ==
    /\ logs' = logs \cup {LogLine("error", FailureMessage(error))}
    /\ toasts' = toasts \cup {IF IsCancelledMessage(error)
                               THEN <<"cancelled">>
                               ELSE <<"batch error", error>>}

\* the catch and finally blocks of handleBatchExecute after an await has
\* thrown: handleBatchError, then cleanupBatchExecution
HandleBatchFailure(r, error) ==
    /\ HandleBatchError(error)
    /\ CleanupBatchExecution
    /\ cleanupTimeouts' = ScheduleCleanupCheck(r)

\* listen('batch-result') has been rejected
ListenResultFailed(r) ==
    /\ pc[r] = "listenResult"
    /\ "listenResult" \in scope.faults
    /\ HandleBatchFailure(r, "listen")
    /\ pc' = [pc EXCEPT ![r] = "done"]
    /\ backend' = [backend EXCEPT ![r] = [FreshRun EXCEPT !.phase = "closed"]]
    /\ UNCHANGED <<scope, localStorage, settingsPage, singleExecuting,
                   singleResults, single, calls, hosts, settings, batchConfig,
                   batchResults, retryAttempts, cancelPc, channel, cancelled>>

\* listen('batch-progress') has been rejected
ListenProgressFailed(r) ==
    /\ pc[r] = "listenProgress"
    /\ "listenProgress" \in scope.faults
    /\ HandleBatchFailure(r, "listen")
    /\ pc' = [pc EXCEPT ![r] = "done"]
    /\ backend' = [backend EXCEPT ![r] = [FreshRun EXCEPT !.phase = "closed"]]
    /\ UNCHANGED <<scope, localStorage, settingsPage, singleExecuting,
                   singleResults, single, calls, hosts, settings, batchConfig,
                   batchResults, retryAttempts, cancelPc, channel, cancelled>>

\* execute_batch_commands has been rejected: the placeholders stay in the list
InvokeRejected ==
    /\ channel # <<>>
    /\ Head(channel).type = "error"
    /\ LET r == Head(channel).run IN
       /\ HandleBatchFailure(r, Head(channel).error)
       /\ pc' = [pc EXCEPT ![r] = "done"]
       /\ backend' = [backend EXCEPT ![r] = [FreshRun EXCEPT !.phase = "closed"]]
    /\ channel' = Tail(channel)
    /\ UNCHANGED <<scope, localStorage, settingsPage, singleExecuting,
                   singleResults, single, calls, hosts, settings, batchConfig,
                   batchResults, retryAttempts, cancelPc, cancelled>>

\* a 'batch-result' event reaches the webview
DeliverBatchResult ==
    /\ channel # <<>>
    /\ Head(channel).type = "batch-result"
    /\ LET st == OnBatchResult([results |-> batchResults, timers |-> retryTimers,
                                attempts |-> retryAttempts],
                               Head(channel).payload, Cardinality(resultListeners))
       IN /\ batchResults' = st.results
          /\ retryTimers' = st.timers
          /\ retryAttempts' = st.attempts
    /\ channel' = Tail(channel)
    /\ UNCHANGED <<scope, pageVars, toasts, singleExecuting, singleResults, single,
                   calls, hosts, settings, batchConfig, batchExecuting,
                   progress, unlistenResultRef, unlistenProgressRef,
                   resultListeners, progressListeners, pc, cancelPc, backend,
                   cancelled>>

\* A listener that stores the two counters of a progress record swapped.
OnBatchProgressSwapped(p) ==
    IF progressListeners = {} THEN progress
    ELSE [current |-> p.total, total |-> p.completed]

\* a 'batch-progress' event reaches the webview
OnBatchProgress(p) ==
    IF progressListeners = {} THEN progress
    ELSE [current |-> p.completed, total |-> p.total]

DeliverBatchProgress ==
    /\ channel # <<>>
    /\ Head(channel).type = "batch-progress"
    /\ progress' = OnBatchProgress(Head(channel).payload)
    /\ channel' = Tail(channel)
    /\ UNCHANGED <<scope, pageVars, toasts, singleExecuting, singleResults, single,
                   calls, hosts, settings, batchConfig, batchExecuting,
                   batchResults, retryTimers, retryAttempts,
                   unlistenResultRef, unlistenProgressRef, resultListeners,
                   progressListeners, pc, cancelPc, backend, cancelled>>

\* the vector execute_batch_commands returned: one outcome per host index
FinalResults(r) == [i \in Indices |-> backend[r].outcome[i]]

\* Final results put through a Map keyed by host.
WithTimestampsByHost(results) ==
    UpsertAll(<<>>, [k \in 1..Len(results) |-> AddTimestamp(results[k])])

\* results.map(r => addTimestamp(r))
WithTimestamps(results) == [k \in 1..Len(results) |-> AddTimestamp(results[k])]

\* execute_batch_commands has returned: the final results replace the list,
\* then the finally block cleans up
InvokeReturn ==
    /\ channel # <<>>
    /\ Head(channel).type = "response"
    /\ LET r == Head(channel).run IN
       /\ batchResults' = WithTimestamps(FinalResults(r))
       /\ CleanupBatchExecution
       /\ cleanupTimeouts' = ScheduleCleanupCheck(r)
       /\ pc' = [pc EXCEPT ![r] = "done"]
       /\ backend' = [backend EXCEPT ![r] = [FreshRun EXCEPT !.phase = "closed"]]
    /\ channel' = Tail(channel)
    /\ UNCHANGED <<scope, localStorage, settingsPage, logs, toasts,
                   singleExecuting, singleResults, single, calls, hosts,
                   settings, batchConfig, retryAttempts, cancelPc, cancelled>>

\* handleSingleExecute up to its await: a rejected form shows the errors and
\* returns, an accepted one invokes execute_ssh_command
HandleSingleExecute(r) ==
    /\ NextRun(r)
    /\ scope.mode = "single"
    /\ ~singleExecuting
    /\ single.phase = "none"
    /\ LET validation == ValidateSshConfig(ValidationInput(singleConfig, singleConfig.host))
       IN IF ~validation.valid
          THEN /\ toasts' = toasts \cup {validation.errors}
               /\ pc' = [pc EXCEPT ![r] = "rejected"]
               /\ UNCHANGED <<singleExecuting, singleResults, single, calls>>
          ELSE /\ singleExecuting' = TRUE
               /\ singleResults' = <<>>
               /\ calls' = calls \cup {[command |-> "execute_ssh_command",
                                         config |-> SshConfig(singleConfig, singleConfig.host)]}
               /\ single' = [phase |-> "running", tripped |-> FALSE]
               /\ pc' = [pc EXCEPT ![r] = "single"]
               /\ UNCHANGED toasts
    /\ UNCHANGED <<scope, pageVars, hosts, settings, batchConfig, batchExecuting,
                   batchResults, progress, retryTimers, retryAttempts,
                   unlistenResultRef, unlistenProgressRef, resultListeners,
                   progressListeners, cancelPc, backend, channel, cancelled>>

\* execute_ssh_command has returned or thrown: a result replaces the list,
\* then the finally block runs
SingleInvokeReturn ==
    /\ channel # <<>>
    /\ Head(channel).type = "single-response"
    /\ LET o == Head(channel).payload IN
       singleResults' = IF o.result # NULL
                        THEN <<AddTimestamp([host |-> o.host, exit_status |-> o.result])>>
                        ELSE singleResults
    /\ singleExecuting' = FALSE
    /\ pc' = [r \in Runs |-> IF pc[r] = "single" THEN "done" ELSE pc[r]]
    /\ channel' = Tail(channel)
    /\ UNCHANGED <<scope, pageVars, toasts, single, calls, hosts, settings, batchConfig,
                   batchExecuting, batchResults, progress, retryTimers,
                   retryAttempts, unlistenResultRef, unlistenProgressRef,
                   resultListeners, progressListeners, cancelPc, backend,
                   cancelled>>

\* the "stop" button: handleCancel up to its await
HandleCancelInvoke ==
    /\ IF scope.mode = "single" THEN singleExecuting ELSE batchExecuting
    /\ cancelPc = "idle"
    /\ cancelPc' = "sent"
    /\ UNCHANGED <<scope, pageVars, toasts, singleExecuting, singleResults, single,
                   calls, hosts, settings, batchConfig, batchExecuting,
                   batchResults, progress, retryTimers, retryAttempts,
                   unlistenResultRef, unlistenProgressRef, resultListeners,
                   progressListeners, pc, backend, channel, cancelled>>

\* the invocations whose token is tripped
TrippedInvocations == { r \in Runs : backend[r].tripped }

\* handleCancel after its await
HandleCancelResume ==
    /\ channel # <<>>
    /\ Head(channel).type = "cancel-ack"
    /\ CleanupEventListeners
    /\ batchExecuting' = FALSE
    /\ progress' = [current |-> 0, total |-> 0]
    /\ retryTimers' = EmptyMap
    /\ cancelPc' = "idle"
    /\ cancelled' = cancelled \cup TrippedInvocations
    /\ channel' = Tail(channel)
    /\ singleExecuting' = FALSE
    /\ localStorage' = RemoveItem(localStorage, WorkspaceStateKey)
    /\ UNCHANGED <<scope, settingsPage, logs, cleanupTimeouts, toasts,
                   singleResults, single, calls, hosts, settings, batchConfig,
                   batchResults, retryAttempts, pc, backend>>

\* the one-second countdown of the retry timers
CountDown(timers) == [h \in DOMAIN timers |-> IF timers[h] > 0 THEN timers[h] - 1 ELSE 0]

Tick ==
    /\ DOMAIN retryTimers # {}
    /\ batchExecuting
    /\ settings.retryFailedHosts
    /\ \E h \in DOMAIN retryTimers : retryTimers[h] > 0
    /\ retryTimers' = CountDown(retryTimers)
    /\ UNCHANGED <<scope, pageVars, toasts, singleExecuting, singleResults, single,
                   calls, hosts, settings, batchConfig, batchExecuting,
                   batchResults, progress, retryAttempts, unlistenResultRef,
                   unlistenProgressRef, resultListeners, progressListeners,
                   pc, cancelPc, backend, channel, cancelled>>

\* A switch without the effect that clears the timers.
ToggleRetryFailedHostsKeepingTimers ==
    /\ settings' = [settings EXCEPT !.retryFailedHosts = ~@]
    /\ UNCHANGED <<scope, pageVars, toasts, singleExecuting, singleResults, single,
                   calls, hosts, batchConfig, batchExecuting, batchResults,
                   progress, retryTimers, retryAttempts, unlistenResultRef,
                   unlistenProgressRef, resultListeners, progressListeners,
                   pc, cancelPc, backend, channel, cancelled>>

\* the "retry" switch of the workspace; switching it off clears the timers
\* and the attempt counters
ToggleRetryFailedHosts ==
    /\ settings' = [settings EXCEPT !.retryFailedHosts = ~@]
    /\ IF settings.retryFailedHosts
       THEN retryTimers' = EmptyMap /\ retryAttempts' = EmptyMap
       ELSE UNCHANGED <<retryTimers, retryAttempts>>
    /\ UNCHANGED <<scope, pageVars, toasts, singleExecuting, singleResults, single,
                   calls, hosts, batchConfig, batchExecuting, batchResults,
                   progress, unlistenResultRef, unlistenProgressRef,
                   resultListeners, progressListeners, pc, cancelPc, backend,
                   channel, cancelled>>

\* The statistics shown above the result list.  An entry is in progress
\* while it is executing (no result and no error yet, during a batch) or
\* waiting for a retry; otherwise it is completed once it has a result or an
\* error.
IsExecutingEntry(r) == batchExecuting /\ r.error = NULL /\ r.result = NULL
IsWaitingRetry(r) == MapHas(retryTimers, r.host)
InProgressEntries ==
    { k \in 1..Len(batchResults) :
        IsExecutingEntry(batchResults[k]) \/ IsWaitingRetry(batchResults[k]) }
CompletedEntries ==
    { k \in 1..Len(batchResults) \ InProgressEntries :
        batchResults[k].result # NULL \/ batchResults[k].error # NULL }
completedResults == [k \in CompletedEntries |-> batchResults[k]]
batchInProgressCount == Cardinality(InProgressEntries)
batchSuccessCount ==
    Cardinality({ k \in CompletedEntries : batchResults[k].result = "exit0" })
batchErrorCount ==
    Cardinality({ k \in CompletedEntries :
                    batchResults[k].error # NULL
                        \/ (batchResults[k].result # NULL
                              /\ batchResults[k].result # "exit0") })

\* Math.pow(2, n)
RECURSIVE Pow2(_)
Pow2(n) == IF n = 0 THEN 1 ELSE 2 * Pow2(n - 1)

\* estimatedExecutionTime: the sum of the delays between the attempts that
\* the worst case of the estimate adds to the timeouts
delaySum ==
    LET reconnectAttempts == settings.reconnectAttempts
        delayBase == IF settings.reconnectDelayBase = 0 THEN 1
                     ELSE settings.reconnectDelayBase
    IN IF reconnectAttempts > 1
       THEN delayBase * (Pow2(reconnectAttempts - 1) - 1)
       ELSE 0

\* the retry policy of the back end: the delay before the i-th retry
RetryDelay(base, i) == base * Pow2(i - 1)

(***************************************************************************)
(* The connection form, the settings and what the pages keep in the local  *)
(* storage.                                                                *)
(***************************************************************************)
\* parseInt, on the texts typed in the model: the number read, or NaN
ParseInt(text) ==
    CASE text = "0" -> [nan |-> FALSE, value |-> 0]
      [] text = "1" -> [nan |-> FALSE, value |-> 1]
      [] text = "2" -> [nan |-> FALSE, value |-> 2]
      [] text = "500" -> [nan |-> FALSE, value |-> 500]
      [] text = "501" -> [nan |-> FALSE, value |-> 501]
      [] text = "-3" -> [nan |-> FALSE, value |-> 0 - 3]
      [] OTHER -> [nan |-> TRUE, value |-> 0]

\* parseInt(text) || fallback
ParseIntOr(text, fallback) ==
    IF ParseInt(text).nan \/ ParseInt(text).value = 0 THEN fallback
    ELSE ParseInt(text).value

\* what the "threads" field of the batch form stores for a typed text
MaxConcurrentTyped(value) == ParseIntOr(value, settings.maxConcurrent)

\* validateNumber of the settings page
ValidateNumber(value, min, max, defaultValue) ==
    IF ParseInt(value).nan THEN defaultValue
    ELSE LET num == ParseInt(value).value
             low == IF max < num THEN max ELSE num
         IN IF min > low THEN min ELSE low

\* the effects that save singleConfig and batchConfig: the config without
\* its password
SingleConfigToSave(config) == [config EXCEPT !.password = UNDEFINED]
BatchConfigToSave(config) == [config EXCEPT !.password = UNDEFINED]

SaveBatchConfig(storage, config) ==
    SetItem(storage, BatchConfigKey, BatchConfigToSave(config))

\* the effect on the connection defaults of the settings: port, auth_method
\* and max_concurrent of the batch form follow them when one of them changes
SyncBatchConfig(config, old, new) ==
    IF old.defaultPort = new.defaultPort
       /\ old.defaultAuthMethod = new.defaultAuthMethod
       /\ old.maxConcurrent = new.maxConcurrent
    THEN config
    ELSE [config EXCEPT !.port = new.defaultPort,
                        !.auth_method = new.defaultAuthMethod,
                        !.max_concurrent = new.maxConcurrent]

\* onChange of the "threads" field of the batch form, and the effect that
\* saves the form
OnMaxConcurrentChange(value) ==
    /\ value \in scope.typed
    /\ batchConfig' = [batchConfig EXCEPT !.max_concurrent = MaxConcurrentTyped(value)]
    /\ localStorage' = SaveBatchConfig(localStorage, batchConfig')
    /\ UNCHANGED <<scope, cleanupTimeouts, settingsPage, logs, hosts, settings, batchExecuting,
                   batchResults, progress, retryTimers, retryAttempts,
                   unlistenResultRef, unlistenProgressRef, resultListeners,
                   progressListeners, pc, cancelPc, toasts, singleExecuting,
                   singleResults, backend, single, channel, cancelled, calls>>

\* onChange of the "passphrase" field of the batch form, and the effect that
\* saves the form
OnPassphraseChange(value) ==
    /\ value \in scope.passphrases
    /\ batchConfig' = [batchConfig EXCEPT !.passphrase = value]
    /\ localStorage' = SaveBatchConfig(localStorage, batchConfig')
    /\ UNCHANGED <<scope, cleanupTimeouts, settingsPage, logs, hosts, settings, batchExecuting,
                   batchResults, progress, retryTimers, retryAttempts,
                   unlistenResultRef, unlistenProgressRef, resultListeners,
                   progressListeners, pc, cancelPc, toasts, singleExecuting,
                   singleResults, backend, single, channel, cancelled, calls>>

\* DEFAULT_SETTINGS, on the settings followed
DefaultSettings ==
    [ retryFailedHosts |-> FALSE, retryInterval |-> 30, retryMaxAttempts |-> 0,
      reconnectAttempts |-> 3, reconnectDelayBase |-> 1,
      passwordMinLength |-> 8, maxConcurrent |-> 50, defaultPort |-> 22,
      defaultAuthMethod |-> "password", requirePasswordForSettings |-> FALSE,
      favoriteCommands |-> <<>> ]

\* What the workspace does when the saved settings change (useSettings
\* reloads them): the batch form follows the connection defaults and is
\* saved, and switching the retries off clears the timers and the counters.
ApplySettings(new) ==
    /\ settings' = new
    /\ batchConfig' = SyncBatchConfig(batchConfig, settings, new)
    /\ IF settings.retryFailedHosts /\ ~new.retryFailedHosts
       THEN retryTimers' = EmptyMap /\ retryAttempts' = EmptyMap
       ELSE UNCHANGED <<retryTimers, retryAttempts>>

\* onChange of the "interval" field of the batch form: saveSettings without
\* a password prompt
OnRetryIntervalChange(value) ==
    /\ value \in scope.intervals
    /\ settings.retryFailedHosts
    /\ ApplySettings([settings EXCEPT
                        !.retryInterval = ParseIntOr(value, settings.retryInterval)])
    /\ localStorage' = SaveBatchConfig(localStorage, batchConfig')
    /\ UNCHANGED <<scope, cleanupTimeouts, settingsPage, logs, hosts, batchExecuting,
                   batchResults, progress, unlistenResultRef,
                   unlistenProgressRef, resultListeners, progressListeners,
                   pc, cancelPc, toasts, singleExecuting, singleResults,
                   backend, single, channel, cancelled, calls>>

\* the value a control of the settings page hands to updateSetting
SettingValue(update) ==
    CASE update.key = "maxConcurrent" -> ValidateNumber(update.text, 1, 500, 50)
      [] update.key = "reconnectAttempts" -> ValidateNumber(update.text, 0, 10, 3)
      [] update.key = "requirePasswordForSettings" -> update.text = "on"

\* { ...settings, [key]: value }
SetSetting(s, key, value) ==
    CASE key = "maxConcurrent" -> [s EXCEPT !.maxConcurrent = value]
      [] key = "reconnectAttempts" -> [s EXCEPT !.reconnectAttempts = value]
      [] key = "requirePasswordForSettings" ->
            [s EXCEPT !.requirePasswordForSettings = value]

\* no update is waiting for the password
NoUpdate == [key |-> "none", text |-> ""]

\* performUpdateRaw: the setting is saved and the pages are told
PerformUpdateRaw(update) ==
    /\ ApplySettings(SetSetting(settings, update.key, SettingValue(update)))
    /\ localStorage' = SaveBatchConfig(localStorage, batchConfig')

\* updateSetting: with requirePasswordForSettings the update waits for the
\* password, otherwise it is performed
UpdateSetting(update) ==
    /\ update \in scope.updates
    /\ ~settingsPage.showPasswordPrompt
    /\ IF settings.requirePasswordForSettings
       THEN /\ settingsPage' = [showPasswordPrompt |-> TRUE, pendingUpdate |-> update]
            /\ UNCHANGED <<settings, batchConfig, retryTimers, retryAttempts,
                           localStorage>>
       ELSE /\ PerformUpdateRaw(update)
            /\ UNCHANGED settingsPage
    /\ UNCHANGED <<scope, cleanupTimeouts, logs, hosts, batchExecuting, batchResults, progress,
                   unlistenResultRef, unlistenProgressRef, resultListeners,
                   progressListeners, pc, cancelPc, toasts, singleExecuting,
                   singleResults, backend, single, channel, cancelled, calls>>

\* hash_settings_password and verify_settings_password of the back end
HashSettingsPassword(password) == [hash |-> password]
VerifySettingsPassword(password, hash) == hash = HashSettingsPassword(password)

\* handlePasswordSubmit: the first password is stored as a hash and the
\* pending update performed; later the update is performed only when the
\* password matches the stored hash
HandlePasswordSubmit(password) ==
    /\ password \in scope.passwords
    /\ settingsPage.showPasswordPrompt
    /\ LET storedPassword == localStorage[PasswordHashKey]
           accepted == ~HasItem(localStorage, PasswordHashKey)
                         \/ VerifySettingsPassword(password, storedPassword.value)
       IN IF accepted
          THEN /\ IF settingsPage.pendingUpdate # NoUpdate
                  THEN ApplySettings(SetSetting(settings, settingsPage.pendingUpdate.key,
                                                SettingValue(settingsPage.pendingUpdate)))
                  ELSE UNCHANGED <<settings, batchConfig, retryTimers, retryAttempts>>
               /\ localStorage' =
                    SaveBatchConfig(
                        IF ~HasItem(localStorage, PasswordHashKey)
                        THEN SetItem(localStorage, PasswordHashKey,
                                     HashSettingsPassword(password))
                        ELSE localStorage, batchConfig')
               /\ settingsPage' = [showPasswordPrompt |-> FALSE, pendingUpdate |-> NoUpdate]
          ELSE UNCHANGED <<settings, batchConfig, retryTimers, retryAttempts,
                           localStorage, settingsPage>>
    /\ UNCHANGED <<scope, cleanupTimeouts, logs, hosts, batchExecuting, batchResults, progress,
                   unlistenResultRef, unlistenProgressRef, resultListeners,
                   progressListeners, pc, cancelPc, toasts, singleExecuting,
                   singleResults, backend, single, channel, cancelled, calls>>

\* confirmReset: resetSettings saves DEFAULT_SETTINGS
ConfirmReset ==
    /\ scope.mode = "settings"
    /\ ApplySettings(DefaultSettings)
    /\ localStorage' = SaveBatchConfig(localStorage, batchConfig')
    /\ UNCHANGED <<scope, cleanupTimeouts, settingsPage, logs, hosts, batchExecuting,
                   batchResults, progress, unlistenResultRef,
                   unlistenProgressRef, resultListeners, progressListeners,
                   pc, cancelPc, toasts, singleExecuting, singleResults,
                   backend, single, channel, cancelled, calls>>

\* confirmClearFavorites: the favourite commands are saved empty
ConfirmClearFavorites ==
    /\ scope.mode = "settings"
    /\ ApplySettings([settings EXCEPT !.favoriteCommands = <<>>])
    /\ localStorage' = SaveBatchConfig(localStorage, batchConfig')
    /\ UNCHANGED <<scope, cleanupTimeouts, settingsPage, logs, hosts, batchExecuting,
                   batchResults, progress, unlistenResultRef,
                   unlistenProgressRef, resultListeners, progressListeners,
                   pc, cancelPc, toasts, singleExecuting, singleResults,
                   backend, single, channel, cancelled, calls>>

(***************************************************************************)
(* The scenarios followed.  A scenario fixes what the user has entered and *)
(* what the hosts answer; it never changes during a behaviour.             *)
(***************************************************************************)
\* a connection form that passes validateSshConfig
ValidForm ==
    [ port |-> 22, username |-> "root", auth_method |-> "password",
      password |-> "hunter22", key_path |-> UNDEFINED, ppk_path |-> UNDEFINED,
      passphrase |-> UNDEFINED ]

\* The host list of the batch, how many times "execute" is clicked,
\* batchConfig.max_concurrent, the setting retryMaxAttempts (0 = until
\* success), and the exit statuses and failures the sessions can end with;
\* by default the batch mode with a valid form.
Scope(h, n, mc, k, x, f) ==
    [hosts |-> h, runs |-> n, max_concurrent |-> mc, retryMaxAttempts |-> k,
     exits |-> x, failures |-> f, mode |-> "batch", config |-> ValidForm,
     passwordMinLength |-> 8, reconnectAttempts |-> 0, message |-> {},
     autoCleanupResults |-> TRUE, saved |-> [kind |-> "none", items |-> <<>>],
     typed |-> {}, intervals |-> {}, updates |-> {}, passwords |-> {}, passphrases |-> {},
     requirePasswordForSettings |-> FALSE, passwordHash |-> NoItem,
     reconnectDelayBase |-> 1, favoriteCommands |-> <<>>, faults |-> {},
     persist |-> FALSE, workspaceState |-> NoItem]

\* two hosts (distinct ips, or the same ip twice), one invocation
TwoHostScopes ==
    { Scope(h, 1, mc, k, {"exit0", "exit1"}, {"auth_failed", "conn_refused"}) :
        h \in { <<"10.0.0.1", "10.0.0.2">>, <<"10.0.0.1", "10.0.0.1">> },
        mc \in {1, 2}, k \in {0, 1} }

\* one host, every kind of failure, one invocation
AllFailuresScopes ==
    { Scope(<<"10.0.0.1">>, 1, 1, k, {"exit0", "exit1"},
            {"validation", "key_not_found", "auth_failed",
             "conn_refused", "conn_timeout", "unknown"}) : k \in {0, 1} }

\* one host whose command succeeds unless cancelled, two invocations that
\* can overlap
OverlapScopes ==
    { Scope(<<"10.0.0.1">>, 2, 1, 1, {"exit0"}, {}) }

\* the connection forms the user can have filled in
Forms ==
    [ port : {22, 0}, username : {"root", ""},
      auth_method : {"password", "key", "ppk"},
      password : {UNDEFINED, "", "pw", "hunter22"},
      key_path : {UNDEFINED, "", " ", "id_rsa"},
      ppk_path : {UNDEFINED, "", "key.ppk"}, passphrase : {UNDEFINED} ]

\* one host whose command succeeds, one click on "execute" in either mode,
\* any connection form, with and without a minimum password length
FormScopes ==
    { [ Scope(<<"10.0.0.1">>, 1, 1, 1, {"exit0"}, {})
          EXCEPT !.mode = m, !.config = c, !.passwordMinLength = n ] :
        m \in {"batch", "single"}, c \in Forms, n \in {0, 8} }

\* the phrases the messages followed are made of
BasePhrases ==
    {"authentication", "validation", "key file not found", "invalid format",
     "connection", "refused", "dns", "timeout", "execute", "cs:ru:otmenen",
     "panic"}

\* the messages followed: one or two of the phrases
Messages == { {a, b} : a, b \in BasePhrases }

\* one host whose session fails with a given message, one invocation
ClassifierScopes ==
    { [ Scope(<<"10.0.0.1">>, 1, 1, 1, {}, {"custom"}) EXCEPT !.message = msg ] :
        msg \in Messages }

\* one host behind a flaky network, with reconnects inside a session, one
\* invocation
ReconnectScopes ==
    { [ Scope(<<"10.0.0.1">>, 1, 1, 1, {"exit0"},
              {"auth_failed", "key_not_found", "conn_refused", "conn_timeout"})
          EXCEPT !.reconnectAttempts = n ] : n \in 1..ReconnectAttemptsBound }

\* one host that keeps refusing the connection, two invocations
RetryTwiceScopes ==
    { Scope(<<"10.0.0.1">>, 2, 1, 1, {}, {"conn_refused"}) }

\* the records the page writes to the saved results: what the result list
\* can hold
WrittenRecords ==
    { AddTimestamp(o) :
        o \in { Outcome("10.0.0.1", NULL, NULL), Outcome("10.0.0.1", "exit0", NULL),
                Outcome("10.0.0.1", "exit1", NULL),
                Outcome("10.0.0.1", NULL, "auth_failed"),
                Outcome("10.0.0.2", NULL, "conn_refused") } }

\* what the saved-results item of the local storage can hold: nothing, text
\* that is no JSON array, or an array written by the page
SavedItems ==
    { [kind |-> "none", items |-> <<>>], [kind |-> "garbage", items |-> <<>>],
      [kind |-> "array", items |-> <<>>] }
    \cup { [kind |-> "array", items |-> <<a>>] : a \in WrittenRecords }
    \cup { [kind |-> "array", items |-> <<a, b>>] : a, b \in WrittenRecords }

\* results are kept across restarts: the page starts with the saved results,
\* then one host is run
RestoreScopes ==
    { [ Scope(<<"10.0.0.1">>, 1, 1, 1, {"exit0"}, {"conn_refused"})
          EXCEPT !.autoCleanupResults = FALSE, !.saved = item ] :
        item \in SavedItems }

\* what the user types into the "threads" field of the batch form, into its
\* "interval" field and into its "passphrase" field
TypedTexts == {"", "0", "2", "501", "-3"}
TypedIntervals == {"2", "", "1"}
TypedPassphrases == {"s3cret"}

\* the changes made on the settings page, and the passwords typed into its
\* prompt
Updates ==
    { [key |-> "maxConcurrent", text |-> "2"],
      [key |-> "maxConcurrent", text |-> "501"],
      [key |-> "reconnectAttempts", text |-> "2"],
      [key |-> "requirePasswordForSettings", text |-> "on"],
      [key |-> "requirePasswordForSettings", text |-> "off"] }
TypedPasswords == {"admin", "guess"}

\* one host whose command succeeds, one invocation; the user types into the
\* "threads" field of the batch form and changes the number of threads on
\* the settings page
ConcurrencyScopes ==
    { [ Scope(<<"10.0.0.1">>, 1, 1, 1, {"exit0"}, {})
          EXCEPT !.typed = TypedTexts,
                 !.updates = { u \in Updates : u.key = "maxConcurrent" } ] }

\* a form with key authentication; the user types a passphrase for the key;
\* one host that rejects the key or runs the command, one invocation
SecretScopes ==
    { [ Scope(<<"10.0.0.1">>, 1, 1, 1, {"exit0"}, {"auth_failed"})
          EXCEPT !.config = [ValidForm EXCEPT !.auth_method = "key",
                                              !.key_path = "id_rsa"],
                 !.passphrases = TypedPassphrases ] }

\* the settings the estimate of the execution time is computed from, before
\* any invocation
EstimateScopes ==
    { [ Scope(<<"10.0.0.1">>, 0, 1, 1, {}, {})
          EXCEPT !.reconnectAttempts = n, !.reconnectDelayBase = b ] :
        n \in 0..MaxReconnectAttempts, b \in 1..DelayBaseBound }

\* one host, one invocation; a listen() call can be rejected and the worker
\* pool can fail to be built
FaultScopes ==
    { [Scope(<<"10.0.0.1">>, 1, 1, 1, {"exit0"}, {"conn_refused"})
         EXCEPT !.faults = {"listenResult", "listenProgress", "pool"}] }

\* what the page can have written under the workspace-state key while its
\* batch was running: the placeholder of the host, or its failure with or
\* without a timer, saved an hour or 25 hours before the page is mounted
WorkspaceItems ==
    { [kind |-> "item",
       value |-> [WorkspaceState(TRUE, FALSE, w.timers, <<AddTimestamp(w.entry)>>)
                    EXCEPT !.savedAt = NowHour - age]] :
        w \in { [timers |-> EmptyMap, entry |-> Outcome("10.0.0.1", NULL, NULL)],
                [timers |-> EmptyMap,
                 entry |-> Outcome("10.0.0.1", NULL, "conn_refused")],
                [timers |-> [h \in {"10.0.0.1"} |-> RetryIntervalBound],
                 entry |-> Outcome("10.0.0.1", NULL, "conn_refused")] },
        age \in {1, 25} }

\* the page is mounted with or without a saved workspace state, then one host
\* is run; the saving of the workspace state is followed
PersistScopes ==
    { [Scope(<<"10.0.0.1">>, 1, 1, 1, {"exit0"}, {"conn_refused"})
         EXCEPT !.persist = TRUE, !.workspaceState = item] :
        item \in {NoItem} \cup WorkspaceItems }

\* one host that can fail and be retried, one invocation; the user edits the
\* "interval" field of the batch form
IntervalScopes ==
    { [Scope(<<"10.0.0.1">>, 1, 1, 1, {"exit0"}, {"conn_refused"})
         EXCEPT !.intervals = {"2", "1"}] }

\* the settings page: the user changes settings, answers the password
\* prompt, resets the settings and clears the favourite commands, and uses
\* the retry controls of the workspace; the settings may ask for a password
\* and a password may have been set before
SettingsScopes ==
    { [ Scope(<<"10.0.0.1">>, 0, 1, 1, {}, {})
          EXCEPT !.mode = "settings",
                 !.requirePasswordForSettings = q,
                 !.passwordHash = h,
                 !.favoriteCommands = <<"uptime">>,
                 !.intervals = TypedIntervals,
                 !.passwords = TypedPasswords,
                 !.updates = { u \in Updates : u.text # "501" } ] :
        q \in BOOLEAN,
        h \in {NoItem, [kind |-> "item", value |-> HashSettingsPassword("admin")]} }

Scopes ==
    TwoHostScopes \cup AllFailuresScopes \cup OverlapScopes \cup FormScopes
        \cup RestoreScopes \cup ClassifierScopes \cup ReconnectScopes
        \cup RetryTwiceScopes \cup ConcurrencyScopes \cup SecretScopes
        \cup EstimateScopes \cup SettingsScopes \cup FaultScopes
        \cup PersistScopes \cup IntervalScopes

(***************************************************************************)
(* The specification.                                                      *)
(***************************************************************************)
Init ==
    /\ scope \in Scopes
    /\ hosts = scope.hosts
    /\ settings \in [ retryFailedHosts : BOOLEAN,
                      retryInterval : {RetryIntervalBound},
                      retryMaxAttempts : {scope.retryMaxAttempts},
                      reconnectAttempts : {scope.reconnectAttempts},
                      reconnectDelayBase : {scope.reconnectDelayBase},
                      passwordMinLength : {scope.passwordMinLength},
                      maxConcurrent : {scope.max_concurrent},
                      defaultPort : {22},
                      defaultAuthMethod : {"password"},
                      requirePasswordForSettings : {scope.requirePasswordForSettings},
                      favoriteCommands : {scope.favoriteCommands} ]
    /\ batchConfig = [ max_concurrent |-> scope.max_concurrent,
                       port |-> scope.config.port,
                       username |-> scope.config.username,
                       auth_method |-> scope.config.auth_method,
                       password |-> scope.config.password,
                       key_path |-> scope.config.key_path,
                       ppk_path |-> scope.config.ppk_path,
                       passphrase |-> scope.config.passphrase ]
    /\ localStorage =
         [ k \in {BatchConfigKey, SingleConfigKey, WorkspaceStateKey, PasswordHashKey} |->
             CASE k = BatchConfigKey ->
                    [kind |-> "item", value |-> BatchConfigToSave(batchConfig)]
               [] k = SingleConfigKey ->
                    [kind |-> "item", value |-> SingleConfigToSave(singleConfig)]
               [] k = WorkspaceStateKey -> RestoreWorkspaceState(scope.workspaceState)
               [] k = PasswordHashKey -> scope.passwordHash ]
    /\ settingsPage = [showPasswordPrompt |-> FALSE, pendingUpdate |-> NoUpdate]
    /\ logs = {}
    /\ toasts = {}
    /\ singleExecuting = FALSE
    /\ singleResults = <<>>
    /\ single = [phase |-> "none", tripped |-> FALSE]
    /\ calls = {}
    /\ batchExecuting = FALSE
    /\ batchResults = MountedBatchResults
    /\ progress = [current |-> 0, total |-> 0]
    /\ retryTimers = MountedRetryTimers(settings.retryFailedHosts)
    /\ retryAttempts = EmptyMap
    /\ cleanupTimeouts = [r \in Runs |-> NoTimeout]
    /\ unlistenResultRef = 0
    /\ unlistenProgressRef = 0
    /\ resultListeners = {}
    /\ progressListeners = {}
    /\ pc = [r \in Runs |-> "idle"]
    /\ cancelPc = "idle"
    /\ backend = [r \in Runs |-> FreshRun]
    /\ channel = <<>>
    /\ cancelled = {}

Next ==
    \/ \E r \in Runs : HandleBatchExecuteStart(r)
    \/ \E r \in Runs : HandleBatchExecuteRejected(r)
    \/ \E r \in Runs : HandleSingleExecute(r)
    \/ SingleInvokeReturn
    \/ SingleSessionEnd
    \/ \E r \in Runs : ListenResultRegistered(r)
    \/ \E r \in Runs : ListenProgressRegistered(r)
    \/ DeliverBatchResult
    \/ DeliverBatchProgress
    \/ InvokeReturn
    \/ \E r \in Runs : ListenResultFailed(r)
    \/ \E r \in Runs : ListenProgressFailed(r)
    \/ \E r \in Runs : PoolConstructionFails(r)
    \/ InvokeRejected
    \/ \E r \in Runs : CleanupCheck(r)
    \/ SaveWorkspaceState
    \/ HandleCancelInvoke
    \/ HandleCancelResume
    \/ Tick
    \/ ToggleRetryFailedHosts
    \/ \E value \in TypedTexts : OnMaxConcurrentChange(value)
    \/ \E value \in TypedIntervals : OnRetryIntervalChange(value)
    \/ \E value \in TypedPassphrases : OnPassphraseChange(value)
    \/ \E update \in Updates : UpdateSetting(update)
    \/ \E password \in TypedPasswords : HandlePasswordSubmit(password)
    \/ ConfirmReset
    \/ ConfirmClearFavorites
    \/ CancelCommandExecution
    \/ \E r \in Runs, i \in Indices : Dispatch(r, i)
    \/ \E r \in Runs, i \in Indices : Reconnect(r, i)
    \/ \E r \in Runs, i \in Indices : SessionEnd(r, i)
    \/ \E r \in Runs, i \in Indices : CancelPending(r, i)
    \/ \E r \in Runs : RoundEnd(r)
    \/ \E r \in Runs : RetrySleepEnd(r)
    \/ \E r \in Runs : RetrySleepCancelled(r)

Spec == Init /\ [][Next]_vars

(***************************************************************************)
(* Properties.                                                             *)
(***************************************************************************)
\* the invocations execute_batch_commands is working on or has just answered
Started(r) == backend[r].phase \in {"running", "sleeping", "returned"}

\* the round of invocation r has reported all its hosts
RoundOver(r) == backend[r].phase \in {"sleeping", "returned"} \/ RoundDrained(r)

\* the entries of the result list for an ip
EntriesOf(ip) == { k \in 1..Len(batchResults) : batchResults[k].host = ip }

\* C1: in every attempt round exactly one outcome is produced for each host
\* index of the round (all indices in the first round), never two, and its
\* host field is the ip at that index, also when ips repeat; the result list
\* handleBatchExecute starts with has one placeholder per index with that ip.
C1_OneOutcomePerIndexPerRound ==
    /\ \A r \in Runs : Started(r) =>
         LET b == backend[r] IN
         /\ \A i \in Indices :
              /\ b.emitted[i] <= 1
              /\ (b.emitted[i] = 1) <=> (b.slot[i] = "Done")
              /\ b.outcome[i].host = b.request.hosts[i]
         /\ RoundOver(r) =>
              /\ Cardinality({ i \in Indices : b.emitted[i] = 1 }) = b.total
              /\ (b.round = 1 => \A i \in Indices : b.emitted[i] = 1)
    /\ \A r \in Runs : (pc[r] = "listenResult" /\ resultListeners = {}) =>
         /\ Len(batchResults) = Len(hosts)
         /\ \A i \in Indices : batchResults[i].host = hosts[i]

\* a retry round over two hosts with the same ip has reported both
C1_Witness ==
    \E r \in Runs :
        /\ Len(hosts) = 2 /\ hosts[1] = hosts[2]
        /\ backend[r].round = 2 /\ backend[r].phase = "returned"
        /\ backend[r].emitted[1] = 1 /\ backend[r].emitted[2] = 1

\* C2: at every instant the sessions of a batch run that are open number at
\* most the max_concurrent of the batch configuration.
C2_OpenSessionsWithinLimit ==
    /\ [](\A r \in Runs :
            \/ Cardinality(OpenSessions(r)) <= backend[r].request.max_concurrent
            \/ OpenSessions(r) = {})
    /\ [][ \A r \in Runs :
             (pc[r] = "idle" /\ pc'[r] = "listenResult")
                => backend'[r].request.max_concurrent
                      = batchConfig.max_concurrent ]_vars

\* in a retry round the limit is reached while a host is still pending
C2_Witness ==
    \E r \in Runs :
        /\ backend[r].round = 2
        /\ Cardinality(OpenSessions(r)) = backend[r].request.max_concurrent
        /\ \E i \in Indices : backend[r].slot[i] = "Pending"

\* a progress record follows another of the same invocation
NextRecord(r) ==
    /\ backend[r].last.total # 0
    /\ backend'[r].last.total # 0
    /\ backend'[r].last # backend[r].last

Monotone(p1, p2) ==
    /\ p1.completed <= p2.completed
    /\ p2.completed <= p2.total
    /\ p1.total = p2.total

C4_LastRecordComplete ==
    \A r \in Runs : RoundOver(r) =>
        /\ backend[r].last.round = backend[r].round
        /\ backend[r].last.completed = backend[r].last.total
        /\ backend[r].last.total = backend[r].total

\* the invocation returned after a retry round over one of two hosts
C4_Witness ==
    \E r \in Runs :
        /\ Len(hosts) = 2 /\ backend[r].phase = "returned"
        /\ backend[r].last = [round |-> 2, completed |-> 1, total |-> 1]

\* C5: once the token is tripped, a host that is in flight or pending ends
\* with the Cancelled error, and when the invocation returns every host has
\* an outcome and completed has reached total.
C5_CancelledHostsGetOutcomes ==
    /\ [](\A r \in Runs : (backend[r].tripped /\ backend[r].phase = "returned") =>
            /\ \A i \in Indices : backend[r].outcome[i].result # NULL
                                    \/ backend[r].outcome[i].error # NULL
            /\ backend[r].completed = backend[r].total
            /\ backend[r].last.completed = backend[r].last.total)
    /\ [][ \A r \in Runs, i \in Indices :
             (/\ backend[r].tripped
              /\ backend[r].slot[i] \in {"Pending", "Executing"}
              /\ backend'[r].slot[i] = "Done")
                => /\ backend'[r].outcome[i].error # NULL
                   /\ KindOf(backend'[r].outcome[i].error) = "Cancelled" ]_vars

\* after the trip the pending host has been reported Cancelled while the
\* session of the other host is still in flight
C5_Witness ==
    \E r \in Runs :
        /\ Len(hosts) = 2 /\ backend[r].tripped
        /\ backend[r].slot[1] = "Executing"
        /\ backend[r].slot[2] = "Done"
        /\ backend[r].outcome[2].error = "cancelled"

\* a 'batch-result' event of invocation r is handled in this step
ResultHandled(r) ==
    /\ channel # <<>>
    /\ Head(channel).type = "batch-result"
    /\ Head(channel).run = r
    /\ channel' = Tail(channel)

\* C6 (as stated): after an invocation has returned following a trip it
\* reports no further outcome, and once handleCancel has completed no
\* 'batch-result' event of an invocation it cancelled changes the result
\* list or the retry timers.
C6_NothingAppliedAfterCancel ==
    [][ /\ \A r \in Runs :
             (backend[r].tripped /\ backend[r].phase = "returned")
                => \A e \in { channel'[k] : k \in 1..Len(channel') } \
                            { channel[k] : k \in 1..Len(channel) } :
                      ~(e.type = "batch-result" /\ e.run = r)
        /\ \A r \in cancelled :
             ResultHandled(r) => /\ batchResults' = batchResults
                                 /\ retryTimers' = retryTimers ]_vars

\* C7 (as stated): with retries switched on and retryMaxAttempts = k > 0 no
\* host index is re-submitted more than k times, and the front end counts at
\* most k retry waits per host.
C7_ResubmissionsWithinLimit ==
    settings.retryMaxAttempts > 0 =>
        /\ \A r \in Runs, i \in Indices :
             (Started(r) /\ backend[r].request.retry_failed_hosts)
                => backend[r].attempts[i] <= settings.retryMaxAttempts
        /\ \A h \in DOMAIN retryAttempts :
             retryAttempts[h] <= settings.retryMaxAttempts

\* the entry is a placeholder and the timer of its ip is the one restored on
\* mount: the latest result of the ip is the one of the saved state
RestoredTimerPending(k) ==
    /\ batchResults[k].error = NULL
    /\ batchResults[k].result = NULL
    /\ MapHas(MountedRetryTimers(TRUE), batchResults[k].host)
    /\ FailedEntry(MountedBatchResults)
    /\ \A j \in 1..Len(MountedBatchResults) :
          MountedBatchResults[j].error # NULL
              => Retryable(KindOf(MountedBatchResults[j].error))

\* C8: a host index is in a retry round only if its latest outcome was a
\* retryable failure, and an ip has a retry timer only if the latest result
\* applied for it is a retryable failure - never AuthDenied, KeyMaterial,
\* CommandValidation or Cancelled.
C8_RetryOnlyAfterRetryableFailure ==
    /\ \A r \in Runs, i \in Indices :
         (/\ Started(r) /\ backend[r].round >= 2
          /\ backend[r].slot[i] \in {"Pending", "Executing"})
            => /\ backend[r].outcome[i].error # NULL
               /\ Retryable(KindOf(backend[r].outcome[i].error))
    /\ \A k \in 1..Len(batchResults) :
         MapHas(retryTimers, batchResults[k].host)
            => \/ /\ batchResults[k].error # NULL
                  /\ Retryable(KindOf(batchResults[k].error))
               \/ RestoredTimerPending(k)

\* a host that was re-submitted after a transient failure was then refused
\* authentication; the front end applied that result and keeps no timer
C8_Witness ==
    \E r \in Runs, i \in Indices :
        /\ backend[r].phase = "returned" /\ ~backend[r].tripped
        /\ backend[r].attempts[i] = 1
        /\ backend[r].outcome[i].error = "auth_failed"
        /\ settings.retryFailedHosts /\ batchExecuting
        /\ \E k \in EntriesOf(hosts[i]) : batchResults[k].error = "auth_failed"
        /\ ~MapHas(retryTimers, hosts[i])

\* C9: an invocation requested with retry_failed_hosts = false has one
\* round only and re-submits no host, and while the retry setting is off no
\* host has a retry timer.
C9_NoRetryWhenDisabled ==
    /\ \A r \in Runs :
         (Started(r) /\ ~backend[r].request.retry_failed_hosts)
            => /\ backend[r].round = 1
               /\ backend[r].phase # "sleeping"
               /\ \A i \in Indices : backend[r].attempts[i] = 0
    /\ ~settings.retryFailedHosts => DOMAIN retryTimers = {}

\* with retries off a host failed with "connection refused"; the invocation
\* returned and the front end applied the failure
C9_Witness ==
    \E r \in Runs, i \in Indices :
        /\ backend[r].phase = "returned" /\ ~backend[r].tripped
        /\ ~backend[r].request.retry_failed_hosts
        /\ ~settings.retryFailedHosts
        /\ backend[r].outcome[i].error = "conn_refused"
        /\ \E k \in EntriesOf(hosts[i]) : batchResults[k].error = "conn_refused"

\* C10: a host whose command ran - also with a non-zero exit status - has a
\* result and no error, is not among the hosts to re-submit and is in no
\* retry round afterwards; in the front end its entry has no error and its
\* ip no retry timer.
C10_NonZeroExitNotRetried ==
    /\ \A r \in Runs, i \in Indices :
         (Started(r) /\ backend[r].outcome[i].result # NULL)
            => /\ backend[r].outcome[i].error = NULL
               /\ i \notin RetrySubset(r)
               /\ backend[r].slot[i] \in {"Done", "Idle"}
    /\ \A k \in 1..Len(batchResults) :
         batchResults[k].result # NULL
            => /\ batchResults[k].error = NULL
               /\ ~MapHas(retryTimers, batchResults[k].host)

\* with retries on, a host re-submitted after a transient failure exited
\* with status 1 and the front end applied the result
C10_Witness ==
    \E r \in Runs, i \in Indices :
        /\ settings.retryFailedHosts /\ batchExecuting
        /\ backend[r].attempts[i] = 1
        /\ backend[r].outcome[i].result = "exit1"
        /\ \E k \in EntriesOf(hosts[i]) : batchResults[k].result = "exit1"

\* the stored records a validator can be handed: every field a value of the
\* right type, null, missing or of a wrong type
StoredRecords ==
    [ host : {"10.0.0.1", "#number"},
      result : {NULL, "exit0", "#partial"},
      error : {NULL, "auth_failed", "#number"},
      timestamp : {UNDEFINED, Now, "#number"} ]

\* exactly one of result and error is non-null, host and timestamp present
ExactlyOne(o) ==
    /\ (o.result # NULL) # (o.error # NULL)
    /\ TypeOf(o.host) = "string"
    /\ TypeOf(o.timestamp) = "string"

\* the outcomes the back end has handed out: those of the events in flight
\* and of the vector an invocation has returned
HandedOut ==
    { channel[k].payload : k \in { j \in 1..Len(channel) : channel[j].type = "batch-result" } }
    \cup { backend[r].outcome[i] : r \in { q \in Runs : backend[q].phase = "returned" },
                                   i \in Indices }

\* C11 as stated: every outcome the back end hands out, every entry of the
\* result list and every record isValidBatchCommandResult accepts has exactly
\* one of result and error non-null, with host and timestamp present.
C11_ExactlyOneEverywhere ==
    /\ \A o \in HandedOut : ExactlyOne(o)
    /\ \A k \in 1..Len(batchResults) : ExactlyOne(batchResults[k])
    /\ \A rec \in StoredRecords : IsValidBatchCommandResult(rec) => ExactlyOne(rec)

\* C11 amended: every outcome the back end hands out has exactly one of
\* result and error non-null, with host and timestamp present; every entry
\* of the result list has host and timestamp and at most one of result and
\* error non-null (neither for a host not yet reported); a record accepted
\* by isValidBatchCommandResult has a string host, a result that is null or a
\* valid CommandResult, an error that is null or a string and a timestamp
\* that is missing or a string.
C11_OutcomesWellFormed ==
    /\ \A o \in HandedOut : ExactlyOne(o)
    /\ \A k \in 1..Len(batchResults) :
         /\ TypeOf(batchResults[k].host) = "string"
         /\ TypeOf(batchResults[k].timestamp) = "string"
         /\ batchResults[k].result = NULL \/ batchResults[k].error = NULL
    /\ \A rec \in StoredRecords :
         IsValidBatchCommandResult(rec)
            => /\ rec.host = "10.0.0.1"
               /\ rec.result \in {NULL, "exit0"}
               /\ rec.error \in {NULL, "auth_failed"}
               /\ rec.timestamp \in {UNDEFINED, Now}

\* a run in which one host is reported and the other still has its placeholder
C11_Witness ==
    /\ batchExecuting
    /\ \E k \in 1..Len(batchResults) :
         batchResults[k].result = NULL /\ batchResults[k].error = NULL
    /\ \E k \in 1..Len(batchResults) : batchResults[k].error # NULL
    /\ \E o \in HandedOut : o.result # NULL

\* the result-list entries that carry a failure, and their messages
FailedEntries == { k \in 1..Len(batchResults) : batchResults[k].error # NULL }
MessageOf(k) == FailureMessage(batchResults[k].error)

C13_CancellationNotRetryable ==
    \A k \in FailedEntries :
        Mentions(MessageOf(k), CancellationPhrases)
            => /\ ~IsRetryableError(batchResults[k].error)
               /\ ~MapHas(retryTimers, batchResults[k].host)

\* C13 amended: the host of a failure message that signals local cancellation
\* is never scheduled for a retry, because the listener tests for the
\* cancellation phrase before it consults the classifier; the classifier
\* itself has no cancellation rule and takes such a message for not
\* retryable only when an earlier rule or the command-execution rule matches.
\* The back end takes the outcome of a cancelled session for Cancelled and
\* never re-submits its host.
C13_CancelledHostNotScheduled ==
    /\ \A r \in Runs, i \in Indices :
         backend[r].outcome[i].error = "cancelled"
            => /\ KindOf(backend[r].outcome[i].error) = "Cancelled"
               /\ i \notin RetrySubset(r)
    /\ \A k \in FailedEntries :
        Mentions(MessageOf(k), CancellationPhrases)
            => /\ ~MapHas(retryTimers, batchResults[k].host)
               /\ ~IsRetryableError(batchResults[k].error)
                    <=> (MatchesAuth(MessageOf(k)) \/ MatchesValidation(MessageOf(k))
                         \/ MatchesKeyMaterial(MessageOf(k))
                         \/ (~Mentions(MessageOf(k), RetryRulePhrases)
                              /\ MatchesExecute(MessageOf(k))))

\* a reported failure whose message is a cancellation the classifier would
\* take for retryable, while retries are on
C13_Witness ==
    /\ settings.retryFailedHosts
    /\ batchExecuting
    /\ \E k \in FailedEntries :
         /\ Mentions(MessageOf(k), CancellationPhrases)
         /\ IsRetryableError(batchResults[k].error)
         /\ ~MapHas(retryTimers, batchResults[k].host)

\* the message matches none of the validation, key-material, authentication,
\* network, timeout and cancellation rules
MatchesNoRule(msg) ==
    /\ ~MatchesValidation(msg) /\ ~MatchesKeyMaterial(msg) /\ ~MatchesAuth(msg)
    /\ ~Mentions(msg, NetworkPhrases) /\ ~Mentions(msg, TimeoutPhrases)
    /\ ~Mentions(msg, CancellationPhrases)

\* C14 as stated: a failure message that matches none of the validation,
\* key-material, authentication, network, timeout and cancellation rules is
\* classified retryable.
C14_UnknownIsRetryable ==
    \A k \in FailedEntries :
        MatchesNoRule(MessageOf(k)) => IsRetryableError(batchResults[k].error)

\* C14 amended: a failure message that matches none of the validation,
\* key-material, authentication, network, timeout, cancellation and
\* command-execution rules is classified retryable; one that matches only the
\* command-execution rule is classified not retryable.
C14_UnknownIsRetryableUnlessExecute ==
    \A k \in FailedEntries :
        MatchesNoRule(MessageOf(k))
            => (IsRetryableError(batchResults[k].error) <=> ~MatchesExecute(MessageOf(k)))

\* a reported failure that matches no rule at all and waits for its retry
C14_Witness ==
    \E k \in FailedEntries :
        /\ MatchesNoRule(MessageOf(k))
        /\ ~MatchesExecute(MessageOf(k))
        /\ MapHas(retryTimers, batchResults[k].host)

\* the message has a network or timeout phrase and matches no earlier rule
TransientOnly(msg) ==
    /\ Mentions(msg, NetworkPhrases) \/ Mentions(msg, TimeoutPhrases)
    /\ ~MatchesValidation(msg) /\ ~MatchesKeyMaterial(msg) /\ ~MatchesAuth(msg)

\* C15 as stated: a failure message with a network-transient or timeout
\* phrase that matches no earlier non-retryable rule is classified retryable.
C15_TransientIsRetryable ==
    \A k \in FailedEntries :
        TransientOnly(MessageOf(k)) => IsRetryableError(batchResults[k].error)

\* C15 amended: a failure message with a network-transient or timeout phrase
\* that matches no earlier non-retryable rule is classified retryable when it
\* names the connection or the network (connection, network, dns, resolve)
\* or has no command-execution phrase; with only a timeout, "refused" or
\* "no route" phrase next to a command-execution phrase it is classified not
\* retryable.
C15_TransientIsRetryableUnlessExecute ==
    \A k \in FailedEntries :
        TransientOnly(MessageOf(k))
            => (IsRetryableError(batchResults[k].error)
                  <=> (Mentions(MessageOf(k), RetryRulePhrases)
                       \/ ~MatchesExecute(MessageOf(k))))

\* a reported DNS failure that also has a command-execution phrase and waits
\* for its retry
C15_Witness ==
    \E k \in FailedEntries :
        /\ Includes(MessageOf(k), "dns")
        /\ MatchesExecute(MessageOf(k))
        /\ MapHas(retryTimers, batchResults[k].host)

C17_FinalResultsAreTheVector ==
    /\ [](\A r \in Runs :
            backend[r].phase = "returned"
               => /\ DOMAIN backend[r].outcome = 1..Len(backend[r].request.hosts)
                  /\ \A i \in Indices :
                       /\ backend[r].outcome[i].host = backend[r].request.hosts[i]
                       /\ ExactlyOne(backend[r].outcome[i]))
    /\ [][\A r \in Runs :
            (pc[r] = "invoke" /\ pc'[r] = "done")
               => /\ Len(batchResults') = Len(hosts)
                  /\ \A i \in Indices :
                       /\ batchResults'[i].host = hosts[i]
                       /\ batchResults'[i].result = backend[r].outcome[i].result
                       /\ batchResults'[i].error = backend[r].outcome[i].error
                       /\ batchResults'[i].timestamp = Now]_vars

\* a finished run over the same ip twice, whose two outcomes differ
C17_Witness ==
    /\ pc[1] = "done"
    /\ ~batchExecuting
    /\ Len(batchResults) = 2
    /\ batchResults[1].host = batchResults[2].host
    /\ batchResults[1].result # NULL
    /\ batchResults[2].error # NULL

\* C18: tripping the token is idempotent and does nothing to an invocation
\* that is not in progress: a cancel command trips only the tokens of the
\* invocations that are running or sleeping and leaves every other
\* invocation as it is, a tripped token stays tripped until the invocation
\* is closed, and a host is reported Cancelled only by an invocation whose
\* own token was tripped while it was in progress.
C18_CancelOnlyTripsRunsInProgress ==
    /\ [](\A r \in Runs, i \in Indices :
            backend[r].outcome[i] = CancelledOutcome(hosts[i]) => backend[r].tripped)
    /\ [][\A r \in Runs :
            /\ (cancelPc = "sent" /\ cancelPc' = "acked")
                  => IF backend[r].phase \in {"running", "sleeping"}
                     THEN backend'[r] = [backend[r] EXCEPT !.tripped = TRUE]
                     ELSE backend'[r] = backend[r]
            /\ (~backend[r].tripped /\ backend'[r].tripped)
                  => /\ cancelPc = "sent"
                     /\ backend[r].phase \in {"running", "sleeping"}
            /\ (backend[r].tripped /\ ~backend'[r].tripped)
                  => backend'[r].phase = "closed"]_vars

\* the stop button was pressed before the back end had started the run, and
\* the run has then finished with the result of its host, not cancelled
C18_Witness ==
    /\ pc[1] = "invoke"
    /\ ~batchExecuting
    /\ cancelPc = "idle"
    /\ backend[1].phase = "returned"
    /\ ~backend[1].tripped
    /\ \A i \in Indices : backend[1].outcome[i].result # NULL

\* C19: when a batch run starts every per-host retry attempt counter is
\* zero: the click on "execute" leaves the front end with no attempt
\* counters, and the back end starts the invocation with the attempts of
\* every host at zero.
C19_AttemptCountersStartAtZero ==
    [][\A r \in Runs :
         /\ (pc[r] = "idle" /\ pc'[r] = "listenResult")
               => \A h \in DOMAIN retryAttempts' : retryAttempts'[h] = 0
         /\ (backend[r].phase = "none" /\ backend'[r].phase = "running")
               => \A i \in Indices : backend'[r].attempts[i] = 0]_vars

\* a second run has just been started after the host was re-submitted in
\* the first run, which is still in progress in the back end
C19_Witness ==
    /\ pc[2] = "listenResult"
    /\ retryAttempts = EmptyMap
    /\ backend[1].attempts[1] > 0
    /\ backend[1].outcome[1].error = "conn_refused"

\* the auth invariant of a config: with key or ppk authentication the key
\* path is non-empty, with password authentication the password is
AuthInvariant(config) ==
    /\ config.auth_method = "password" => config.password \notin {UNDEFINED, ""}
    /\ config.auth_method = "key" => config.key_path \notin {UNDEFINED, ""}
    /\ config.auth_method = "ppk" => config.ppk_path \notin {UNDEFINED, ""}

\* the form of the mode the page is in
CurrentForm == IF scope.mode = "single" THEN singleConfig ELSE batchConfig

\* C20: every config handed to execute_ssh_command or execute_batch_commands
\* satisfies the auth invariant; a click on "execute" with a form that
\* violates it shows validation errors and makes no back-end call.
C20_NoCallWithInvalidAuth ==
    /\ [](\A call \in calls : AuthInvariant(call.config))
    /\ [](~AuthInvariant(CurrentForm) => calls = {} /\ single.phase = "none"
                                          /\ \A r \in Runs : backend[r].phase = "none")
    /\ [][\A r \in Runs :
            (pc[r] = "idle" /\ pc'[r] # "idle" /\ ~AuthInvariant(CurrentForm))
               => /\ pc'[r] = "rejected"
                  /\ toasts' # toasts
                  /\ \E errors \in toasts' : errors # <<>>
                  /\ calls' = calls]_vars

\* a form with key authentication and a blank key path was rejected, in
\* either mode
C20_Witness ==
    /\ scope.config.auth_method = "key"
    /\ scope.config.key_path = ""
    /\ scope.config.username = "root"
    /\ scope.config.port = 22
    /\ pc[1] = "rejected"
    /\ toasts = {<<"key path">>}
    /\ calls = {}

\* C21: every request handed to execute_batch_commands asks for between 1
\* and 500 concurrent sessions, whatever was typed into the "threads" field,
\* changed in the settings or restored from the saved batch form.
C21_MaxConcurrentWithinRange ==
    \A r \in Runs :
        Started(r) =>
            backend[r].request.max_concurrent >= 1
                /\ backend[r].request.max_concurrent <= 500

\* the texts an event on its way to the front end carries
EventTexts(e) ==
    IF e.type = "batch-result"
    THEN {e.payload.host}
            \cup (IF e.payload.error = NULL THEN {}
                  ELSE FailureMessage(e.payload.error))
    ELSE IF e.type = "batch-progress" THEN {e.payload.host}
    ELSE {}

\* the secrets the user has entered
EnteredSecrets == Secrets(batchConfig) \cup Secrets(singleConfig)

\* C22: no password and no passphrase the user has entered appears in a
\* console line, in an event sent to the front end, in an error of the result
\* list or in an error shown to the user.
C22_NoSecretShown ==
    /\ \A l \in logs : l.values \cap EnteredSecrets = {}
    /\ \A k \in 1..Len(channel) : EventTexts(channel[k]) \cap EnteredSecrets = {}
    /\ \A k \in 1..Len(batchResults) :
          batchResults[k].error # NULL =>
              MessageOf(k) \cap EnteredSecrets = {}
    /\ \A t \in toasts : \A j \in 1..Len(t) : t[j] \notin EnteredSecrets

\* a batch with a password and a passphrase entered has written its console
\* lines and a failure of a host is on its way to the front end
C22_Witness ==
    /\ "s3cret" \in EnteredSecrets
    /\ "hunter22" \in EnteredSecrets
    /\ logs # {}
    /\ \E k \in 1..Len(channel) :
          channel[k].type = "batch-result" /\ channel[k].payload.error # NULL

\* C23: while a batch is executing the result list has one entry per host of
\* the host list, in the order of the list, also when an ip is listed twice.
C23_OneEntryPerHost ==
    (batchExecuting /\ \E r \in Runs : pc[r] \in {"listenResult", "listenProgress", "invoke"})
        => /\ Len(batchResults) = Len(hosts)
           /\ \A i \in Indices : batchResults[i].host = hosts[i]

\* the same, for host lists without a repeated ip
C23_OneEntryPerDistinctHost ==
    (\A i, j \in Indices : hosts[i] = hosts[j] => i = j) => C23_OneEntryPerHost

\* C28: every entry of the result list is counted once, as in progress, as a
\* success or as an error, and the successes and errors together are the
\* completed results.
C28_EveryEntryCounted ==
    /\ batchInProgressCount + batchSuccessCount + batchErrorCount = Len(batchResults)
    /\ batchSuccessCount + batchErrorCount = Cardinality(DOMAIN completedResults)

\* the second half alone: a completed result is a success or an error
C28_CompletedAreSuccessOrError ==
    batchSuccessCount + batchErrorCount = Cardinality(DOMAIN completedResults)

\* the delays of the retry policy before the retries 1..n, added up
RECURSIVE SumOfRetryDelays(_, _)
SumOfRetryDelays(base, n) ==
    IF n = 0 THEN 0 ELSE SumOfRetryDelays(base, n - 1) + RetryDelay(base, n)

\* C25: the delay the estimate of the worst case adds for reconnect_attempts
\* = n and base b is the sum of the retry policy's delays b * 2^(i-1) for
\* i = 1..n, which is b * (2^n - 1).
C25_DelaySumIsPolicySum ==
    /\ delaySum = SumOfRetryDelays(settings.reconnectDelayBase, settings.reconnectAttempts)
    /\ delaySum = settings.reconnectDelayBase * (Pow2(settings.reconnectAttempts) - 1)

\* the closed form of the policy's sum, whatever the estimate computes
C25_PolicySumClosedForm ==
    SumOfRetryDelays(settings.reconnectDelayBase, settings.reconnectAttempts)
        = settings.reconnectDelayBase * (Pow2(settings.reconnectAttempts) - 1)

\* C29: the saved connection forms of the local storage hold no secret:
\* neither a password nor a key passphrase.
C29_NoSecretInLocalStorage ==
    \A key \in {BatchConfigKey, SingleConfigKey} :
        HasItem(localStorage, key) => Secrets(localStorage[key].value) = {}

\* the password alone is never in the saved forms
C29_NoPasswordInLocalStorage ==
    \A key \in {BatchConfigKey, SingleConfigKey} :
        HasItem(localStorage, key) => localStorage[key].value.password = UNDEFINED

\* C30: while the settings require a password, the saved settings change
\* only in the step in which the password prompt is answered and closes (the
\* password was verified, or the first password was set).
C30_SettingsChangeOnlyAfterPassword ==
    [][ (settings.requirePasswordForSettings /\ settings' # settings)
            => (settingsPage.showPasswordPrompt /\ ~settingsPage'.showPasswordPrompt) ]_vars

\* the invocations of handleBatchExecute that have started and not finished
ActiveRuns == { r \in Runs : pc[r] \in {"listenResult", "listenProgress", "invoke"} }

\* C26: at most one execute_batch_commands call is in flight, and the return
\* of a cancelled call leaves a run started after it alone: its executing
\* flag, its results and its listeners stay as they are.
C26_OneRunAtATime ==
    [][ /\ Cardinality({ r \in Runs : pc'[r] = "invoke" }) <= 1
        /\ \A r, q \in Runs :
              (r < q /\ pc[r] = "invoke" /\ pc'[r] = "done" /\ q \in ActiveRuns)
                  => /\ batchExecuting' = batchExecuting
                     /\ batchResults' = batchResults
                     /\ (q \in resultListeners') = (q \in resultListeners)
                     /\ (q \in progressListeners') = (q \in progressListeners) ]_vars

\* C24: when handleBatchExecute finishes after it has started a run, whether
\* execute_batch_commands returned, was rejected or a listener could not be
\* registered, the listeners the run registered are unregistered,
\* batchExecuting is false, the progress is 0/0 and retryTimers is empty.
C24_FinishCleansUp ==
    [][ \A r \in Runs :
          pc[r] \in {"listenResult", "listenProgress", "invoke"} /\ pc'[r] = "done"
              => /\ r \notin resultListeners'
                 /\ r \notin progressListeners'
                 /\ ~batchExecuting'
                 /\ progress' = [current |-> 0, total |-> 0]
                 /\ retryTimers' = EmptyMap ]_vars

\* the same for a run that finishes before another one is started: then no
\* listener at all is left
C24_FinishCleansUpAlone ==
    [][ \A r \in Runs :
          ( /\ pc[r] \in {"listenResult", "listenProgress", "invoke"}
            /\ pc'[r] = "done"
            /\ \A q \in Runs \ {r} : pc[q] = "idle" )
              => /\ resultListeners' = {}
                 /\ progressListeners' = {}
                 /\ ~batchExecuting'
                 /\ progress' = [current |-> 0, total |-> 0]
                 /\ retryTimers' = EmptyMap ]_vars

\* a pending timer implies a batch that is executing with the retries enabled
TimersImplyExecuting ==
    DOMAIN retryTimers # {} => batchExecuting /\ settings.retryFailedHosts

\* no timer is above the retry interval of the settings
TimersWithinInterval ==
    \A h \in DOMAIN retryTimers : retryTimers[h] \in 0..settings.retryInterval

\* C27: a host waits for a retry only while a batch run is active: a
\* non-empty retryTimers implies that batchExecuting is true and that the
\* retries are enabled, also right after the workspace state was restored on
\* mount; and every timer lies within 0..retry_interval.
C27_TimersOnlyWhileExecuting ==
    TimersImplyExecuting /\ TimersWithinInterval

====
